---- MODULE Spec2Model ----
(***************************************************************************)
(* TacticalMesh mesh routing core (agent/mesh/routing.py, with the parts  *)
(* of agent/mesh/peering.py and agent/main.py it depends on).             *)
(*                                                                         *)
(* Every router-side datum is indexed by node, so the same definitions    *)
(* serve a single router driven through its public methods (Spec,         *)
(* SpecSelect, SpecExpiry, SpecBreaker) and a network of routers exchanging *)
(* RELAY_DATA datagrams (SpecNet).                                         *)
(*                                                                         *)
(* Conventions.                                                            *)
(*  - Time is in seconds (datetime.utcnow()); a handler runs at one       *)
(*    instant `now`.                                                       *)
(*  - RoutePath.reliability is the float success_count / total.  It is    *)
(*    kept as the exact fraction [num, den]; comparisons cross-multiply.  *)
(*    For the counts reached here (total < 2^20) the IEEE double quotient *)
(*    compares with 0.2 and with other quotients exactly as the fraction. *)
(*  - Python lists of RoutePath hold references: a list returned by       *)
(*    get_all_routes is modelled as a sequence of indices into            *)
(*    route_table[dest], and record_success / record_failure write        *)
(*    through to the table.                                                *)
(*  - metrics["avg_hop_count"] and _hop_counts are derived floats that no *)
(*    handler reads; they are not part of the state.                       *)
(***************************************************************************)
EXTENDS Integers, Sequences, FiniteSets, TLC

VARIABLES
    now,                \* datetime.utcnow(), seconds
    route_cache_ttl,    \* MeshRouter.route_cache_ttl, per node (configuration)
    peers,              \* MeshPeering.peers, per node
    controller_client,  \* the Controller Client capability, per node
    route_table,        \* MeshRouter.route_table, per node: destination -> list of RoutePath
    pending_requests,   \* MeshRouter.pending_requests, per node: request_id -> timestamp
    relay_cache,        \* MeshRouter.relay_cache, per node: the cached message ids
    metrics,            \* MeshRouter.metrics, per node
    network,            \* datagrams in flight
    message,            \* the RelayMessage object the caller of relay_message holds
    on_relay_complete,  \* MeshRouter._on_relay_complete is set, per node
    pending_pings,      \* MeshPeering._pending_pings, per node: the peers pinged and not yet heard
    buffer,             \* the agent's LocalBuffer: configuration, items, disk image
    running,            \* MeshPeering.running of the observed node
    socket,             \* MeshPeering._socket of the observed node: open, closed, or None
    lock,               \* MeshRouter._lock of the observed node: the thread that holds it, or None
    pc,                 \* per thread: the operation it is in and the step it is at
    reg,                \* per thread: the local variables of that operation
    sent_count,         \* history: RELAY_DATA datagrams transmitted, per message id
    last                \* history: what the most recent operation did

vars == <<now, route_cache_ttl, peers, controller_client, route_table,
          pending_requests, relay_cache, metrics, network, message,
          on_relay_complete, pending_pings, buffer, running, socket, lock, pc, reg,
          sent_count, last>>

\* the state of the service and of its threads
threadVars == <<running, socket, lock, pc, reg>>

----------------------------------------------------------------------------
(* Bounds of the model *)

MaxTicks == 1          \* clock advances per behaviour (Spec, SpecSelect, SpecBreaker)
MaxSelectTicks == 3    \* clock advances per behaviour (SpecExpiry)
MaxCount == 2          \* success_count + failure_count of a route (SpecSelect, SpecExpiry)
MaxBreakerCount == 6   \* success_count + failure_count of a route (SpecBreaker)
MaxMetric == 2         \* cap of the relay counters of metrics (Spec)
MaxRetriesBound == 2   \* largest max_retries argument tried
MaxHopsBound == 3
MaxPeerTicks == 2
MaxItemsBound == 2
MaxAdds == 4
MaxPersistAdds == 2
MaxAttempts == 1
MaxBeats == 6          \* sleeps of the heartbeat loop that advance the clock (SpecBeat)
MaxThreadOps == 1      \* operations a thread enters per behaviour (SpecThreads)      \* max_hops of the messages (configuration allows 2..10)

(* Program constants *)

ROUTE_EXPIRY_SECONDS == 60       \* RoutePath.is_expired
CONTROLLER_FRESH_SECONDS == 60   \* can_reach_controller_directly
DEFAULT_PEER_RTT == 20           \* handle_route_response: peer.rtt_ms or 20
DEFAULT_MAX_RETRIES == 2         \* relay_message(message, max_retries=2)
BREAKER_FAILURES == 3            \* relay_message: r.failure_count < 3
MESH_PORT == 7777
HEARTBEAT_INTERVAL == 10
PEER_TIMEOUT == 30                \* default listen port
DEFAULT_MAX_ITEMS == 1000        \* LocalBuffer(max_items=1000)
DEFAULT_FLUSH_BATCH == 50        \* LocalBuffer(flush_batch_size=50)
DIRECT_RTT == 10                 \* handle_route_request: estimate for direct HTTP
RELAY_OVERHEAD_RTT == 20         \* handle_route_request: added to a mesh route
REQUEST_PEER_RTT == 50           \* handle_route_request: (peer.rtt_ms or 50.0)

None == "None"
NoTime == 0 - 1                    \* a datetime that is None
NoRtt == 0 - 1                     \* an rtt_ms that is None
NoRoute == [next_hop |-> None]     \* select_best_route returning None
NoMessage == [message_id |-> None] \* the caller holds no message
Idle == [op |-> "other"]
EmptyMap == [x \in {} |-> x]           \* history value after an operation no property inspects
CONTROLLER == "controller"

\* The threads of one agent: the agent loop, the two threads MeshPeering.start
\* creates, and a thread that asks for the routing status
Threads == {"agent", "listener", "heartbeat", "status"}
IdlePc == [op |-> "idle", i |-> 0]         \* the thread is in no operation
NoLocals == [val |-> 0, todo |-> <<>>]

\* MeshPeering after a successful start(); no thread is inside an operation
ServiceStarted ==
    /\ running = TRUE
    /\ socket = "open"
    /\ lock = None
    /\ pc = [t \in Threads |-> IdlePc]
    /\ reg = [t \in Threads |-> NoLocals]

Nodes == {"n1", "n2", "n3"}
Self == "n1"                       \* the router driven in the single-router specifications
Dests == {CONTROLLER, "n9"}        \* "n9": a destination nobody answers for
MsgIds == {"m1"}
ReqIds == {"r1"}
TickSteps == {61}                  \* seconds per clock advance
SelectTickSteps == {30}            \* seconds per clock advance (SpecExpiry)
TtlConfigs == {10, 60, 600}        \* route_cache_ttl_seconds: ge=10, le=600, default 60

AddrOf(n) == <<n, MESH_PORT>>      \* (address, port) of node n

----------------------------------------------------------------------------
(* RoutePath *)

\* reliability >= 0.2, i.e. num/den >= 1/5
RelAtLeastFifth(rel) == 5 * rel.num >= rel.den

\* reliability a > reliability b
RelGreater(a, b) == a.num * b.den > b.num * a.den

\* RoutePath(...) as handle_route_response builds it: the dataclass defaults.
\* `streak` is a history field, not a field of RoutePath: the number of failures
\* recorded since the last recorded success.  No operation reads it.
NewRoutePath(target, next_hop, next_hop_addr, total_hops, estimated_rtt_ms, last_updated) ==
    [target |-> target, next_hop |-> next_hop, next_hop_addr |-> next_hop_addr,
     total_hops |-> total_hops, estimated_rtt_ms |-> estimated_rtt_ms,
     last_updated |-> last_updated,
     reliability |-> [num |-> 1, den |-> 1],
     success_count |-> 0, failure_count |-> 0,
     streak |-> 0]

\* RoutePath.is_expired: the age is compared with the literal 60
is_expired(r) == now - r.last_updated > ROUTE_EXPIRY_SECONDS

\* RoutePath._update_reliability
update_reliability(r) ==
    LET total == r.success_count + r.failure_count IN
    IF total > 0
    THEN [r EXCEPT !.reliability = [num |-> r.success_count, den |-> total]]
    ELSE r

record_success_keeps_ratio(r) ==
    [r EXCEPT !.success_count = @ + 1, !.last_updated = now, !.streak = 0]

\* RoutePath.record_success
record_success(r) ==
    [update_reliability([r EXCEPT !.success_count = @ + 1])
        EXCEPT !.last_updated = now, !.streak = 0]

record_failure_stale_ratio(r) ==
    [r EXCEPT !.failure_count = @ + 1, !.streak = @ + 1]

\* RoutePath.record_failure
record_failure(r) ==
    update_reliability([r EXCEPT !.failure_count = @ + 1, !.streak = @ + 1])

----------------------------------------------------------------------------
(* RelayMessage *)

NewRelayMessage(id, msg_type, origin, destination, hop_count, max_hops, path_trace) ==
    [message_id |-> id, msg_type |-> msg_type, origin_node_id |-> origin,
     destination |-> destination, hop_count |-> hop_count, max_hops |-> max_hops,
     path_trace |-> path_trace]

increment_hop_origin(m, node_id) ==
    [message |-> [m EXCEPT !.hop_count = @ + 1,
                           !.path_trace = Append(@, m.origin_node_id)],
     ok |-> m.hop_count + 1 <= m.max_hops]

increment_hop_keeps_count(m, node_id) ==
    [message |-> [m EXCEPT !.path_trace = Append(@, node_id)],
     ok |-> m.hop_count <= m.max_hops]

increment_hop_prepend(m, node_id) ==
    [message |-> [m EXCEPT !.hop_count = @ + 1,
                           !.path_trace = <<node_id>> \o @],
     ok |-> m.hop_count + 1 <= m.max_hops]

\* RelayMessage.increment_hop: the mutated message and the returned flag
increment_hop(m, node_id) ==
    [message |-> [m EXCEPT !.hop_count = @ + 1,
                           !.path_trace = Append(@, node_id)],
     ok |-> m.hop_count + 1 <= m.max_hops]

----------------------------------------------------------------------------
(* Controller connectivity *)

can_reach_controller_directly_or_health(n) ==
    LET c == controller_client[n] IN
    \/ c.last_success # NoTime /\ now - c.last_success < CONTROLLER_FRESH_SECONDS
    \/ c.health_check = "true"

\* MeshRouter.can_reach_controller_directly.  A set last_success decides
\* alone; health_check is consulted only when last_success is absent or unset.
can_reach_controller_directly(n) ==
    LET c == controller_client[n] IN
    IF c.last_success # NoTime
    THEN now - c.last_success < CONTROLLER_FRESH_SECONDS
    ELSE c.health_check = "true"

----------------------------------------------------------------------------
(* Route table *)

RoutesTo(n, destination) ==
    IF destination \in DOMAIN route_table[n] THEN route_table[n][destination] ELSE <<>>

\* the members of the index set S, ascending, as a sequence
RECURSIVE IdxSeq(_, _, _)
IdxSeq(S, i, n) ==
    IF i > n THEN <<>>
    ELSE (IF i \in S THEN <<i>> ELSE <<>>) \o IdxSeq(S, i + 1, n)

\* the sort key (r.total_hops, r.estimated_rtt_ms, -r.reliability), compared as tuples
KeyLess(a, b) ==
    \/ a.total_hops < b.total_hops
    \/ /\ a.total_hops = b.total_hops
       /\ \/ a.estimated_rtt_ms < b.estimated_rtt_ms
          \/ /\ a.estimated_rtt_ms = b.estimated_rtt_ms
             /\ RelGreater(a.reliability, b.reliability)

\* list.sort(key=...) is stable: x goes before the first element whose key is greater
RECURSIVE InsertSorted(_, _, _)
InsertSorted(routes, sorted, x) ==
    IF sorted = <<>> THEN <<x>>
    ELSE IF KeyLess(routes[x], routes[Head(sorted)]) THEN <<x>> \o sorted
    ELSE <<Head(sorted)>> \o InsertSorted(routes, Tail(sorted), x)

RECURSIVE SortRoutes(_, _)
SortRoutes(routes, idxs) ==
    IF idxs = <<>> THEN <<>>
    ELSE InsertSorted(routes, SortRoutes(routes, SubSeq(idxs, 1, Len(idxs) - 1)),
                      idxs[Len(idxs)])

\* MeshRouter.get_all_routes: the non-expired routes, in table order
get_all_routes(n, destination) ==
    LET routes == RoutesTo(n, destination) IN
    IdxSeq({i \in 1..Len(routes) : ~is_expired(routes[i])}, 1, Len(routes))

\* MeshRouter.has_route_to
has_route_to(n, destination) ==
    LET routes == RoutesTo(n, destination)
        valid_routes == IdxSeq({i \in 1..Len(routes) : ~is_expired(routes[i])}, 1, Len(routes))
    IN Len(valid_routes) > 0

select_best_route_first(n, destination) ==
    LET routes == RoutesTo(n, destination)
        valid_routes == IdxSeq({i \in 1..Len(routes) : ~is_expired(routes[i])}, 1, Len(routes))
    IN IF valid_routes = <<>> THEN NoRoute ELSE routes[valid_routes[1]]

\* MeshRouter.select_best_route: the chosen RoutePath, or None
select_best_route(n, destination) ==
    LET routes == RoutesTo(n, destination)
        valid_routes == IdxSeq({i \in 1..Len(routes) : ~is_expired(routes[i])}, 1, Len(routes))
    IN IF valid_routes = <<>> THEN NoRoute
       ELSE routes[SortRoutes(routes, valid_routes)[1]]

----------------------------------------------------------------------------
(* Message relay *)

ttl_reached_strict(m) == m.hop_count > m.max_hops

\* relay_message, "Check TTL": message.hop_count >= message.max_hops
ttl_reached(m) == m.hop_count >= m.max_hops

\* the circuit-breaker test of one route: r.reliability >= 0.2 or r.failure_count < 3
is_viable(r) == RelAtLeastFifth(r.reliability) \/ r.failure_count < BREAKER_FAILURES

viable_routes_unfiltered(routes, all_routes) == all_routes

viable_routes_no_fallback(routes, all_routes) ==
    LET keep(i) == is_viable(routes[i]) IN SelectSeq(all_routes, keep)

\* relay_message: filter out circuit-broken routes, fall back to all of them
viable_routes(routes, all_routes) ==
    LET keep(i) == is_viable(routes[i])
        viable == SelectSeq(all_routes, keep)
    IN IF viable = <<>> THEN all_routes ELSE viable

\* One send attempt of the loop, as the history records it
Attempt(k, r, ok) == [route |-> k, next_hop |-> r.next_hop, addr |-> r.next_hop_addr, ok |-> ok]

try_routes_keeps_sending(routes, viable, max_retries, fails) ==
    LET RECURSIVE Walk(_, _)
        Walk(i, st) ==
            IF i > Len(viable) \/ st.attempts >= max_retries + 1 THEN st
            ELSE LET k == viable[i]
                     r == st.routes[k]
                 IN IF r.next_hop \in st.tried THEN Walk(i + 1, st)
                    ELSE IF (st.attempts + 1) \in fails
                    THEN Walk(i + 1, [routes   |-> [st.routes EXCEPT ![k] = record_failure(r)],
                                      attempts |-> st.attempts + 1,
                                      tried    |-> st.tried \cup {r.next_hop},
                                      sends    |-> Append(st.sends, Attempt(k, r, FALSE)),
                                      ret      |-> st.ret])
                    ELSE Walk(i + 1, [routes   |-> [st.routes EXCEPT ![k] = record_success(r)],
                                      attempts |-> st.attempts + 1,
                                      tried    |-> st.tried \cup {r.next_hop},
                                      sends    |-> Append(st.sends, Attempt(k, r, TRUE)),
                                      ret      |-> TRUE])
    IN Walk(1, [routes |-> routes, attempts |-> 0, tried |-> {}, sends |-> <<>>, ret |-> FALSE])

try_routes_forgets_failure(routes, viable, max_retries, fails) ==
    LET RECURSIVE Walk(_, _)
        Walk(i, st) ==
            IF i > Len(viable) \/ st.attempts >= max_retries + 1 THEN st
            ELSE LET k == viable[i]
                     r == st.routes[k]
                 IN IF r.next_hop \in st.tried THEN Walk(i + 1, st)
                    ELSE IF (st.attempts + 1) \in fails
                    THEN Walk(i + 1, [routes   |-> st.routes,
                                      attempts |-> st.attempts + 1,
                                      tried    |-> st.tried \cup {r.next_hop},
                                      sends    |-> Append(st.sends, Attempt(k, r, FALSE)),
                                      ret      |-> FALSE])
                    ELSE [routes   |-> [st.routes EXCEPT ![k] = record_success(r)],
                          attempts |-> st.attempts + 1,
                          tried    |-> st.tried \cup {r.next_hop},
                          sends    |-> Append(st.sends, Attempt(k, r, TRUE)),
                          ret      |-> TRUE]
    IN Walk(1, [routes |-> routes, attempts |-> 0, tried |-> {}, sends |-> <<>>, ret |-> FALSE])

\* relay_message, "Try routes with retry logic": the for loop over viable_routes.
\* `fails` holds the attempt numbers whose sendto raises.  The result carries the
\* route list with the recorded successes and failures, the attempts made and
\* whether the loop returned True.
try_routes(routes, viable, max_retries, fails) ==
    LET RECURSIVE Walk(_, _)
        Walk(i, st) ==
            IF i > Len(viable) \/ st.attempts >= max_retries + 1 THEN st
            ELSE LET k == viable[i]
                     r == st.routes[k]
                 IN IF r.next_hop \in st.tried THEN Walk(i + 1, st)
                    ELSE IF (st.attempts + 1) \in fails
                    THEN Walk(i + 1, [routes   |-> [st.routes EXCEPT ![k] = record_failure(r)],
                                      attempts |-> st.attempts + 1,
                                      tried    |-> st.tried \cup {r.next_hop},
                                      sends    |-> Append(st.sends, Attempt(k, r, FALSE)),
                                      ret      |-> FALSE])
                    ELSE [routes   |-> [st.routes EXCEPT ![k] = record_success(r)],
                          attempts |-> st.attempts + 1,
                          tried    |-> st.tried \cup {r.next_hop},
                          sends    |-> Append(st.sends, Attempt(k, r, TRUE)),
                          ret      |-> TRUE]
    IN Walk(1, [routes |-> routes, attempts |-> 0, tried |-> {}, sends |-> <<>>, ret |-> FALSE])

KeepMetric(n, key) == metrics[n]

BumpMetric_twice(n, key) == [metrics[n] EXCEPT ![key] = @ + 2]

\* self.metrics[key] += 1
BumpMetric(n, key) == [metrics[n] EXCEPT ![key] = @ + 1]

\* MeshRouter.relay_message(message, max_retries) on router n.  The result:
\*   ret        the returned bool
\*   message    the caller's message object afterwards
\*   routes     route_table[message.destination] afterwards
\*   cache      relay_cache afterwards
\*   metrics    metrics afterwards
\*   sends      the sendto attempts, in order
\*   branch     which return statement was taken
relay_message(n, m, max_retries, fails) ==
    LET routes      == RoutesTo(n, m.destination)
        all_routes  == SortRoutes(routes, get_all_routes(n, m.destination))
        viable      == viable_routes(routes, all_routes)
        inc         == increment_hop(m, n)
        walk        == try_routes(routes, viable, max_retries, fails)
        failed      == BumpMetric(n, "failed_relays")
    IN
    IF ttl_reached(m)
    THEN [ret |-> FALSE, message |-> m, routes |-> routes, cache |-> relay_cache[n],
          metrics |-> failed, sends |-> <<>>, branch |-> "ttl"]
    ELSE IF all_routes = <<>>
    THEN [ret |-> FALSE, message |-> m, routes |-> routes, cache |-> relay_cache[n],
          metrics |-> failed, sends |-> <<>>, branch |-> "no_route"]
    ELSE IF ~inc.ok
    THEN [ret |-> FALSE, message |-> inc.message, routes |-> routes, cache |-> relay_cache[n],
          metrics |-> failed, sends |-> <<>>, branch |-> "ttl_after_increment"]
    ELSE IF walk.ret
    THEN [ret |-> TRUE, message |-> inc.message, routes |-> walk.routes,
          cache |-> relay_cache[n] \cup {m.message_id},
          metrics |-> BumpMetric(n, "messages_relayed"),
          sends |-> walk.sends, branch |-> "sent"]
    ELSE [ret |-> FALSE, message |-> inc.message, routes |-> walk.routes,
          cache |-> relay_cache[n] \ {m.message_id},
          metrics |-> failed, sends |-> walk.sends, branch |-> "exhausted"]

\* route_table[n] with the list of `destination` replaced (RoutePath objects are
\* mutated in place, so a destination without a list stays without one)
WithRoutes(n, destination, routes) ==
    IF destination \in DOMAIN route_table[n]
    THEN [route_table[n] EXCEPT ![destination] = routes]
    ELSE route_table[n]

----------------------------------------------------------------------------
(* Route discovery *)

MSG_ROUTE_REQUEST == "ROUTE_REQUEST"
MSG_ROUTE_RESPONSE == "ROUTE_RESPONSE"
MSG_RELAY_DATA == "RELAY_DATA"
MSG_RELAY_ACK == "RELAY_ACK"

\* MeshPeering.get_reachable_peers
get_reachable_peers(n) == {p \in DOMAIN peers[n] : peers[n][p].status = "reachable"}

\* A RELAY_DATA datagram: MSG_RELAY_DATA + message.to_bytes().  asdict + json
\* keeps every field of the message, so the body is the message as sent.
RelayDatagram(src, addr, m) ==
    [type |-> MSG_RELAY_DATA, src |-> src, dst |-> addr, body |-> m]

RouteRequestDatagram(src, addr, request_id, destination) ==
    [type |-> MSG_ROUTE_REQUEST, src |-> src, dst |-> addr,
     body |-> [sender_id |-> src, request_id |-> request_id, destination |-> destination]]

\* (peer.rtt_ms or 20): None and 0.0 are both falsy
PeerRttOrDefault(peer) ==
    IF peer.rtt_ms = NoRtt \/ peer.rtt_ms = 0 THEN DEFAULT_PEER_RTT ELSE peer.rtt_ms

insert_always(routes, route) == [routes |-> Append(routes, route), added |-> TRUE]

\* handle_route_response, "Add to route table": the new list of `destination`
\* and whether a route was appended
insert_or_update(routes, route) ==
    LET existing == {i \in 1..Len(routes) : routes[i].next_hop = route.next_hop} IN
    IF existing # {}
    THEN LET i == CHOOSE j \in existing : \A k \in existing : j <= k IN
         [routes |-> [routes EXCEPT ![i] = [@ EXCEPT !.total_hops = route.total_hops,
                                                     !.estimated_rtt_ms = route.estimated_rtt_ms,
                                                     !.last_updated = route.last_updated]],
          added |-> FALSE]
    ELSE [routes |-> Append(routes, route), added |-> TRUE]

\* MeshRouter.discover_routes with a fresh request id
DiscoverRoutes(n, request_id, destination) ==
    /\ request_id \notin DOMAIN pending_requests[n]
    /\ pending_requests' = [pending_requests EXCEPT ![n] = (request_id :> now) @@ @]
    /\ network' = network \cup
           {RouteRequestDatagram(n, <<peers[n][p].address, peers[n][p].port>>,
                                 request_id, destination) : p \in get_reachable_peers(n)}
    /\ last' = Idle
    /\ UNCHANGED <<threadVars, now, route_cache_ttl, peers, controller_client, route_table,
                   relay_cache, metrics, message, sent_count,
                   on_relay_complete, pending_pings, buffer>>

handle_route_response_unchecked(n, sender_id, sender_addr, request_id, destination, hops, rtt_ms) ==
    LET is_peer == sender_id \in DOMAIN peers[n]
        route   == NewRoutePath(destination, sender_id, sender_addr, hops + 1,
                                rtt_ms + PeerRttOrDefault(peers[n][sender_id]), now)
        upd     == insert_or_update(RoutesTo(n, destination), route)
    IN
    IF ~is_peer
    THEN [known |-> TRUE, raised |-> TRUE, table |-> route_table[n], metrics |-> metrics[n]]
    ELSE [known |-> TRUE, raised |-> FALSE,
          table |-> (destination :> upd.routes) @@ route_table[n],
          metrics |-> IF upd.added THEN BumpMetric(n, "routes_discovered") ELSE metrics[n]]

\* MeshRouter.handle_route_response: the route table and metrics afterwards,
\* whether the request id was pending, and whether the call raised.  A
\* response to an unknown request is ignored; for a sender that is not in the
\* peer table self.peering.peers.get(sender_id, {}).rtt_ms raises
\* AttributeError before any update.
handle_route_response(n, sender_id, sender_addr, request_id, destination, hops, rtt_ms) ==
    LET known   == request_id \in DOMAIN pending_requests[n]
        is_peer == sender_id \in DOMAIN peers[n]
        route   == NewRoutePath(destination, sender_id, sender_addr, hops + 1,
                                rtt_ms + PeerRttOrDefault(peers[n][sender_id]), now)
        upd     == insert_or_update(RoutesTo(n, destination), route)
    IN
    IF ~known
    THEN [known |-> FALSE, raised |-> FALSE, table |-> route_table[n], metrics |-> metrics[n]]
    ELSE IF ~is_peer
    THEN [known |-> TRUE, raised |-> TRUE, table |-> route_table[n], metrics |-> metrics[n]]
    ELSE [known |-> TRUE, raised |-> FALSE,
          table |-> (destination :> upd.routes) @@ route_table[n],
          metrics |-> IF upd.added THEN BumpMetric(n, "routes_discovered") ELSE metrics[n]]

\* A ROUTE_RESPONSE frame reaches router n: NodeAgent._handle_mesh_message
\* calls handle_route_response and logs whatever it raises
HandleRouteResponse(n, sender_id, sender_addr, request_id, destination, hops, rtt_ms) ==
    LET res == handle_route_response(n, sender_id, sender_addr, request_id,
                                     destination, hops, rtt_ms) IN
    /\ route_table' = [route_table EXCEPT ![n] = res.table]
    /\ metrics' = [metrics EXCEPT ![n] = res.metrics]
    /\ last' = Idle
    /\ UNCHANGED <<threadVars, now, route_cache_ttl, peers, controller_client, pending_requests,
                   relay_cache, network, message, sent_count,
                   on_relay_complete, pending_pings, buffer>>

\* The same step, keeping in the history what the handler was given and did
ReceiveRouteResponse(n, sender_id, sender_addr, request_id, destination, hops, rtt_ms) ==
    LET res == handle_route_response(n, sender_id, sender_addr, request_id,
                                     destination, hops, rtt_ms) IN
    /\ route_table' = [route_table EXCEPT ![n] = res.table]
    /\ metrics' = [metrics EXCEPT ![n] = res.metrics]
    /\ last' = [op |-> "handle_route_response", node |-> n, sender_id |-> sender_id,
                sender_addr |-> sender_addr, request_id |-> request_id,
                destination |-> destination, hops |-> hops, at |-> now,
                table_before |-> route_table[n], metrics_before |-> metrics[n],
                pending_before |-> pending_requests[n], result |-> res]
    /\ UNCHANGED <<threadVars, now, route_cache_ttl, peers, controller_client, pending_requests,
                   relay_cache, network, message, sent_count,
                   on_relay_complete, pending_pings, buffer>>

\* MeshRouter.invalidate_route
InvalidateRoute(n, destination, next_hop) ==
    LET keep(r) == r.next_hop # next_hop IN
    /\ route_table' = [route_table EXCEPT ![n] =
                          WithRoutes(n, destination, SelectSeq(RoutesTo(n, destination), keep))]
    /\ last' = Idle
    /\ UNCHANGED <<threadVars, now, route_cache_ttl, peers, controller_client, pending_requests,
                   relay_cache, metrics, network, message, sent_count,
                   on_relay_complete, pending_pings, buffer>>

\* MeshRouter.cleanup_expired_routes: expired routes go, and destinations left
\* without a route are deleted from the table
CleanupExpiredRoutes(n) ==
    LET keep(r) == ~is_expired(r)
        kept(d) == SelectSeq(route_table[n][d], keep)
        left    == {d \in DOMAIN route_table[n] : kept(d) # <<>>}
    IN
    /\ route_table' = [route_table EXCEPT ![n] = [d \in left |-> kept(d)]]
    /\ last' = Idle
    /\ UNCHANGED <<threadVars, now, route_cache_ttl, peers, controller_client, pending_requests,
                   relay_cache, metrics, network, message, sent_count,
                   on_relay_complete, pending_pings, buffer>>

\* A ROUTE_RESPONSE datagram: MSG_ROUTE_RESPONSE + node_id + request_id +
\* destination + hops (2 bytes, unsigned) + rtt_ms
RouteResponseDatagram(src, addr, request_id, destination, hops, rtt_ms) ==
    [type |-> MSG_ROUTE_RESPONSE, src |-> src, dst |-> addr,
     body |-> [sender_id |-> src, request_id |-> request_id, destination |-> destination,
               hops |-> hops, rtt_ms |-> rtt_ms]]

\* (peer.rtt_ms or 50.0): None and 0.0 are both falsy
PeerRttOrFifty(peer) ==
    IF peer.rtt_ms = NoRtt \/ peer.rtt_ms = 0 THEN REQUEST_PEER_RTT ELSE peer.rtt_ms

handle_route_request_any_peer(n, sender_id, sender_addr, request_id, destination, send_ok) ==
    LET direct == can_reach_controller_directly(n)
        route  == select_best_route(n, destination)
        ans    == IF destination = CONTROLLER
                  THEN IF direct THEN [hops |-> 0, rtt_ms |-> DIRECT_RTT]
                       ELSE IF route # NoRoute /\ ~is_expired(route)
                       THEN [hops |-> route.total_hops + 1,
                             rtt_ms |-> route.estimated_rtt_ms + RELAY_OVERHEAD_RTT]
                       ELSE [hops |-> 0 - 1, rtt_ms |-> 0]
                  ELSE IF destination = n THEN [hops |-> 0, rtt_ms |-> 0]
                  ELSE IF destination \in DOMAIN peers[n]
                  THEN [hops |-> 1, rtt_ms |-> PeerRttOrFifty(peers[n][destination])]
                  ELSE [hops |-> 0 - 1, rtt_ms |-> 0]
    IN
    [hops |-> ans.hops, rtt_ms |-> ans.rtt_ms,
     raised |-> ans.hops >= 0 /\ ~send_ok,
     sent |-> IF ans.hops >= 0 /\ send_ok
              THEN {RouteResponseDatagram(n, sender_addr, request_id, destination,
                                          ans.hops, ans.rtt_ms)}
              ELSE {}]

\* MeshRouter.handle_route_request: the hop count and RTT it settles on
\* (hops = -1: no route), the datagrams _send_route_response puts on the
\* wire, and whether the call raised.  send_ok = FALSE is a sendto that
\* fails: _send_to_peer raises and nothing is sent.
handle_route_request(n, sender_id, sender_addr, request_id, destination, send_ok) ==
    LET direct == can_reach_controller_directly(n)
        route  == select_best_route(n, destination)
        ans    == IF destination = CONTROLLER
                  THEN IF direct THEN [hops |-> 0, rtt_ms |-> DIRECT_RTT]
                       ELSE IF route # NoRoute /\ ~is_expired(route)
                       THEN [hops |-> route.total_hops + 1,
                             rtt_ms |-> route.estimated_rtt_ms + RELAY_OVERHEAD_RTT]
                       ELSE [hops |-> 0 - 1, rtt_ms |-> 0]
                  ELSE IF destination = n THEN [hops |-> 0, rtt_ms |-> 0]
                  ELSE IF destination \in DOMAIN peers[n]
                          /\ peers[n][destination].status = "reachable"
                  THEN [hops |-> 1, rtt_ms |-> PeerRttOrFifty(peers[n][destination])]
                  ELSE [hops |-> 0 - 1, rtt_ms |-> 0]
    IN
    [hops |-> ans.hops, rtt_ms |-> ans.rtt_ms,
     raised |-> ans.hops >= 0 /\ ~send_ok,
     sent |-> IF ans.hops >= 0 /\ send_ok
              THEN {RouteResponseDatagram(n, sender_addr, request_id, destination,
                                          ans.hops, ans.rtt_ms)}
              ELSE {}]

\* A ROUTE_REQUEST frame reaches router n: NodeAgent._handle_mesh_message
\* calls handle_route_request and logs whatever it raises
HandleRouteRequest(n, sender_id, sender_addr, request_id, destination, send_ok) ==
    LET res == handle_route_request(n, sender_id, sender_addr, request_id,
                                    destination, send_ok) IN
    /\ network' = network \cup res.sent
    /\ last' = [op |-> "handle_route_request", node |-> n, sender_id |-> sender_id,
                sender_addr |-> sender_addr, request_id |-> request_id,
                destination |-> destination, send_ok |-> send_ok, at |-> now,
                direct |-> can_reach_controller_directly(n),
                table_before |-> route_table[n], peers_before |-> peers[n],
                network_before |-> network, result |-> res]
    /\ UNCHANGED <<threadVars, now, route_cache_ttl, peers, controller_client, route_table,
                   pending_requests, relay_cache, metrics, message, sent_count,
                   on_relay_complete, pending_pings, buffer>>

----------------------------------------------------------------------------
(* Relay: the public call, and the inbound path *)

SentDatagrams(n, m, sends) ==
    {RelayDatagram(n, sends[i].addr, m) : i \in {j \in 1..Len(sends) : sends[j].ok}}

CountOk(sends) == Cardinality({i \in 1..Len(sends) : sends[i].ok})

\* The caller's message object is replaced (a new RelayMessage is constructed)
NewMessage(m) ==
    /\ message' = m
    /\ last' = Idle
    /\ UNCHANGED <<threadVars, now, route_cache_ttl, peers, controller_client, route_table,
                   pending_requests, relay_cache, metrics, network, sent_count,
                   on_relay_complete, pending_pings, buffer>>

\* relay_message(message, max_retries) called on the message object the caller holds
RelayMessage(n, max_retries, fails) ==
    LET m   == message
        res == relay_message(n, m, max_retries, fails)
    IN
    /\ m # NoMessage
    /\ message' = res.message
    /\ route_table' = [route_table EXCEPT ![n] = WithRoutes(n, m.destination, res.routes)]
    /\ relay_cache' = [relay_cache EXCEPT ![n] = res.cache]
    /\ metrics' = [metrics EXCEPT ![n] = res.metrics]
    /\ network' = network \cup SentDatagrams(n, res.message, res.sends)
    /\ sent_count' = [sent_count EXCEPT ![m.message_id] = @ + CountOk(res.sends)]
    /\ last' = [op |-> "relay_message", node |-> n, max_retries |-> max_retries,
                before |-> m, routes_before |-> RoutesTo(n, m.destination),
                cache_before |-> relay_cache[n], metrics_before |-> metrics[n],
                at |-> now, result |-> res]
    /\ UNCHANGED <<threadVars, now, route_cache_ttl, peers, controller_client, pending_requests,
                   on_relay_complete, pending_pings, buffer>>

\* NodeAgent._send_heartbeat_via_mesh from "Check if route exists now": with a
\* route to the controller, a fresh heartbeat RelayMessage (hop 0, empty trace,
\* the configured max_hops) is handed to relay_message with the default
\* max_retries; without one nothing is sent.  The discovery that may precede
\* it is DiscoverRoutes; the responses arrive in between.
SendHeartbeatViaMesh(n, id, max_hops, fails) ==
    LET m   == NewRelayMessage(id, "heartbeat", n, CONTROLLER, 0, max_hops, <<>>)
        res == relay_message(n, m, DEFAULT_MAX_RETRIES, fails)
    IN
    /\ select_best_route(n, CONTROLLER) # NoRoute
    /\ route_table' = [route_table EXCEPT ![n] = WithRoutes(n, CONTROLLER, res.routes)]
    /\ relay_cache' = [relay_cache EXCEPT ![n] = res.cache]
    /\ metrics' = [metrics EXCEPT ![n] = res.metrics]
    /\ network' = network \cup SentDatagrams(n, res.message, res.sends)
    /\ sent_count' = [sent_count EXCEPT ![id] = @ + CountOk(res.sends)]
    /\ last' = [op |-> "relay_message", node |-> n, max_retries |-> DEFAULT_MAX_RETRIES,
                before |-> m, routes_before |-> RoutesTo(n, CONTROLLER),
                cache_before |-> relay_cache[n], metrics_before |-> metrics[n],
                at |-> now, result |-> res]
    /\ UNCHANGED <<threadVars, now, route_cache_ttl, peers, controller_client, pending_requests, message,
                   on_relay_complete, pending_pings, buffer>>

\* every RoutePath of every destination whose next_hop_addr is sender_addr
\* gets record_success
credit_sender(n, sender_addr) ==
    [d \in DOMAIN route_table[n] |->
        [i \in 1..Len(route_table[n][d]) |->
            IF route_table[n][d][i].next_hop_addr = sender_addr
            THEN record_success(route_table[n][d][i])
            ELSE route_table[n][d][i]]]

forward_to_controller_as_self(n, m, sender_addr, outcome) ==
    LET success == CASE m.msg_type = "heartbeat"      -> outcome = "accepted"
                     [] m.msg_type = "command_result" -> outcome # "raises"
                     [] OTHER                         -> FALSE
    IN [success |-> success,
        called  |-> m.msg_type \in {"heartbeat", "command_result"},
        calls   |-> CASE m.msg_type = "heartbeat" ->
                          <<[method |-> "heartbeat", node_id |-> n]>>
                      [] m.msg_type = "command_result" ->
                          <<[method |-> "report_command_result", node_id |-> None]>>
                      [] OTHER -> <<>>,
        table   |-> IF success THEN credit_sender(n, sender_addr) ELSE route_table[n],
        metrics |-> IF success THEN BumpMetric(n, "successful_deliveries") ELSE metrics[n]]

\* MeshRouter._forward_to_controller.  `outcome` is what the Controller Client
\* does with the call: "accepted", "rejected" (heartbeat returns None,
\* report_command_result returns False) or "raises".  The return value of
\* report_command_result is not looked at.
forward_to_controller(n, m, sender_addr, outcome) ==
    LET called  == m.msg_type \in {"heartbeat", "command_result"}
        success == CASE m.msg_type = "heartbeat"      -> outcome = "accepted"
                     [] m.msg_type = "command_result" -> outcome # "raises"
                     [] OTHER                         -> FALSE
        calls   == CASE m.msg_type = "heartbeat" ->
                          <<[method |-> "heartbeat", node_id |-> m.origin_node_id]>>
                     [] m.msg_type = "command_result" ->
                          <<[method |-> "report_command_result", node_id |-> None]>>
                     [] OTHER -> <<>>
    IN [success |-> success,
        called  |-> called,
        calls   |-> calls,
        table   |-> IF success THEN credit_sender(n, sender_addr) ELSE route_table[n],
        metrics |-> IF success THEN BumpMetric(n, "successful_deliveries") ELSE metrics[n]]

\* One call of MeshRouter._send_relay_ack, as its arguments
AckCall(m, success) ==
    [message_id |-> m.message_id, origin_node_id |-> m.origin_node_id, success |-> success]

\* MeshRouter._send_relay_ack: the datagrams the call puts on the network.  The
\* body builds the RELAY_ACK frame and writes a debug log line; it never calls
\* _send_to_peer.
send_relay_ack(n, call) == {}

\* The datagrams sent by a sequence of _send_relay_ack calls
AckDatagrams(n, calls) == UNION {send_relay_ack(n, calls[i]) : i \in 1..Len(calls)}

\* MeshRouter._handle_message_for_self: a "command" is not executed (TODO);
\* the acknowledgment is always requested with success = True
handle_message_for_self(n, m) == <<AckCall(m, TRUE)>>

handle_incoming_relay_at_limit(n, m, sender_addr, outcome, fails) ==
    LET fwd == forward_to_controller(n, m, sender_addr, outcome)
        res == relay_message(n, m, DEFAULT_MAX_RETRIES, fails)
        same == [table |-> route_table[n], cache |-> relay_cache[n], metrics |-> metrics[n],
                 message |-> m, sends |-> <<>>, controller_called |-> FALSE,
                 controller_calls |-> <<>>]
    IN
    IF m.destination = n
    THEN same @@ [branch |-> "for_self", ack_calls |-> handle_message_for_self(n, m)]
    ELSE IF m.destination = CONTROLLER /\ can_reach_controller_directly(n)
    THEN [table |-> fwd.table, cache |-> relay_cache[n], metrics |-> fwd.metrics,
          message |-> m, sends |-> <<>>, controller_called |-> fwd.called,
          controller_calls |-> fwd.calls,
          branch |-> "to_controller", ack_calls |-> <<AckCall(m, fwd.success)>>]
    ELSE IF m.hop_count <= m.max_hops
    THEN [table |-> WithRoutes(n, m.destination, res.routes), cache |-> res.cache,
          metrics |-> res.metrics, message |-> res.message, sends |-> res.sends,
          controller_called |-> FALSE, controller_calls |-> <<>>,
          branch |-> res.branch, ack_calls |-> <<>>]
    ELSE same @@ [branch |-> "max_hops_drop", ack_calls |-> <<>>]

\* MeshRouter.handle_incoming_relay for a frame that parsed to message m.
handle_incoming_relay(n, m, sender_addr, outcome, fails) ==
    LET fwd == forward_to_controller(n, m, sender_addr, outcome)
        res == relay_message(n, m, DEFAULT_MAX_RETRIES, fails)
        same == [table |-> route_table[n], cache |-> relay_cache[n], metrics |-> metrics[n],
                 message |-> m, sends |-> <<>>, controller_called |-> FALSE,
                 controller_calls |-> <<>>]
    IN
    IF m.destination = n
    THEN same @@ [branch |-> "for_self", ack_calls |-> handle_message_for_self(n, m)]
    ELSE IF m.destination = CONTROLLER /\ can_reach_controller_directly(n)
    THEN [table |-> fwd.table, cache |-> relay_cache[n], metrics |-> fwd.metrics,
          message |-> m, sends |-> <<>>, controller_called |-> fwd.called,
          controller_calls |-> fwd.calls,
          branch |-> "to_controller", ack_calls |-> <<AckCall(m, fwd.success)>>]
    ELSE IF m.hop_count < m.max_hops
    THEN [table |-> WithRoutes(n, m.destination, res.routes), cache |-> res.cache,
          metrics |-> res.metrics, message |-> res.message, sends |-> res.sends,
          controller_called |-> FALSE, controller_calls |-> <<>>,
          branch |-> res.branch, ack_calls |-> <<>>]
    ELSE same @@ [branch |-> "max_hops_drop", ack_calls |-> <<>>]


\* handle_incoming_relay applied to a frame that parsed to m, and its effects
HandleIncomingRelay(n, m, sender_addr, outcome, fails) ==
    LET res == handle_incoming_relay(n, m, sender_addr, outcome, fails) IN
    /\ route_table' = [route_table EXCEPT ![n] = res.table]
    /\ relay_cache' = [relay_cache EXCEPT ![n] = res.cache]
    /\ metrics' = [metrics EXCEPT ![n] = res.metrics]
    /\ network' = network \cup SentDatagrams(n, res.message, res.sends)
                           \cup AckDatagrams(n, res.ack_calls)
    /\ sent_count' = [sent_count EXCEPT ![m.message_id] = @ + CountOk(res.sends)]
    /\ last' = [op |-> "handle_incoming_relay", node |-> n, before |-> m,
                routes_before |-> RoutesTo(n, m.destination),
                cache_before |-> relay_cache[n], metrics_before |-> metrics[n],
                table_before |-> route_table[n], direct |-> can_reach_controller_directly(n),
                sender_addr |-> sender_addr, outcome |-> outcome, at |-> now, result |-> res]
    /\ UNCHANGED <<threadVars, now, route_cache_ttl, peers, controller_client, pending_requests, message,
                   on_relay_complete, pending_pings, buffer>>

\* handle_incoming_relay on bytes that RelayMessage.from_bytes rejects: logged, dropped
HandleMalformedRelay(n) ==
    /\ last' = [op |-> "malformed_relay", node |-> n, table_before |-> route_table[n],
                cache_before |-> relay_cache[n], metrics_before |-> metrics[n],
                network_before |-> network]
    /\ UNCHANGED <<threadVars, now, route_cache_ttl, peers, controller_client, route_table,
                   pending_requests, relay_cache, metrics, network, message, sent_count,
                   on_relay_complete, pending_pings, buffer>>

\* A RELAY_DATA datagram in flight reaches the listener of the node it was sent
\* to, which hands it to handle_incoming_relay with the sender's address
DeliverRelay(d, outcome, fails) ==
    LET n   == d.dst[1]
        m   == d.body
        res == handle_incoming_relay(n, m, AddrOf(d.src), outcome, fails)
    IN
    /\ d \in network
    /\ d.type = MSG_RELAY_DATA
    /\ n \in Nodes
    /\ route_table' = [route_table EXCEPT ![n] = res.table]
    /\ relay_cache' = [relay_cache EXCEPT ![n] = res.cache]
    /\ metrics' = [metrics EXCEPT ![n] = res.metrics]
    /\ network' = (network \ {d}) \cup SentDatagrams(n, res.message, res.sends)
                                   \cup AckDatagrams(n, res.ack_calls)
    /\ sent_count' = [sent_count EXCEPT ![m.message_id] = @ + CountOk(res.sends)]
    /\ last' = [op |-> "handle_incoming_relay", node |-> n, before |-> m,
                routes_before |-> RoutesTo(n, m.destination),
                cache_before |-> relay_cache[n], metrics_before |-> metrics[n],
                table_before |-> route_table[n], direct |-> can_reach_controller_directly(n),
                sender_addr |-> AddrOf(d.src), outcome |-> outcome, at |-> now, result |-> res]
    /\ UNCHANGED <<threadVars, now, route_cache_ttl, peers, controller_client, pending_requests, message,
                   on_relay_complete, pending_pings, buffer>>

\* A datagram is lost, or reaches a listener that cannot parse it (recvfrom
\* truncates at 1024 bytes): nothing changes at the receiver
LoseDatagram(d) ==
    /\ d \in network
    /\ network' = network \ {d}
    /\ last' = Idle
    /\ UNCHANGED <<threadVars, now, route_cache_ttl, peers, controller_client, route_table,
                   pending_requests, relay_cache, metrics, message, sent_count,
                   on_relay_complete, pending_pings, buffer>>

handle_relay_ack_on_success_only(n, message_id, success) ==
    IF message_id \in relay_cache[n] /\ success
    THEN [cache |-> relay_cache[n] \ {message_id},
          callbacks |-> IF on_relay_complete[n] THEN <<<<message_id, success>>>> ELSE <<>>]
    ELSE [cache |-> relay_cache[n], callbacks |-> <<>>]

\* MeshRouter.handle_relay_ack: the cache afterwards and the calls made to the
\* completion callback
handle_relay_ack(n, message_id, success) ==
    IF message_id \in relay_cache[n]
    THEN [cache |-> relay_cache[n] \ {message_id},
          callbacks |-> IF on_relay_complete[n] THEN <<<<message_id, success>>>> ELSE <<>>]
    ELSE [cache |-> relay_cache[n], callbacks |-> <<>>]

\* A RELAY_ACK frame for message_id reaches router n
HandleRelayAck(n, message_id, success) ==
    LET res == handle_relay_ack(n, message_id, success) IN
    /\ relay_cache' = [relay_cache EXCEPT ![n] = res.cache]
    /\ last' = [op |-> "handle_relay_ack", node |-> n, message_id |-> message_id,
                success |-> success, cache_before |-> relay_cache[n],
                callbacks |-> res.callbacks]
    /\ UNCHANGED <<threadVars, now, route_cache_ttl, peers, controller_client, route_table,
                   pending_requests, metrics, network, message, sent_count,
                   on_relay_complete, pending_pings, buffer>>

\* MeshRouter.on_relay_complete(callback)
OnRelayComplete(n) ==
    /\ on_relay_complete' = [on_relay_complete EXCEPT ![n] = TRUE]
    /\ last' = Idle
    /\ UNCHANGED <<threadVars, now, route_cache_ttl, peers, controller_client, route_table,
                   pending_requests, relay_cache, metrics, network, message, sent_count,
                   pending_pings, buffer>>

----------------------------------------------------------------------------
(* MeshPeering: the peer table of one node *)

\* PeerInfo as MeshPeering.add_static_peer creates it
StaticPeer(p) ==
    [node_id |-> p, address |-> p, port |-> MESH_PORT, status |-> "discovered",
     last_seen |-> NoTime, rtt_ms |-> NoRtt]

\* MeshPeering.add_static_peer: a call for the node itself is skipped; any
\* other call stores a new PeerInfo under node_id, whatever was there
add_static_peer(n, node_id) ==
    IF node_id = n THEN peers[n] ELSE (node_id :> StaticPeer(node_id)) @@ peers[n]

\* MeshPeering._update_peer_status: rtt_ms = NoRtt stands for None
update_peer_status(n, node_id, addr, status, rtt_ms) ==
    IF node_id \in DOMAIN peers[n]
    THEN [peers[n] EXCEPT ![node_id] =
             [@ EXCEPT !.status = status, !.last_seen = now,
                       !.rtt_ms = IF rtt_ms # NoRtt THEN rtt_ms ELSE @]]
    ELSE (node_id :> [node_id |-> node_id, address |-> addr[1], port |-> addr[2],
                      status |-> status, last_seen |-> now, rtt_ms |-> rtt_ms]) @@ peers[n]

check_peer_timeout_off(n, node_id) == peers[n]

\* MeshPeering._check_peer_timeout on the PeerInfo of node_id
check_peer_timeout(n, node_id) ==
    LET peer == peers[n][node_id] IN
    IF peer.last_seen = NoTime THEN peers[n]
    ELSE IF now - peer.last_seen > PEER_TIMEOUT /\ peer.status = "reachable"
    THEN [peers[n] EXCEPT ![node_id].status = "unreachable"]
    ELSE peers[n]

\* MeshPeering._send_ping: the pending pings afterwards.  A failing sendto is
\* logged and leaves them as they were.
send_ping(n, node_id, send_ok) ==
    IF send_ok THEN (node_id :> now) @@ pending_pings[n] ELSE pending_pings[n]

\* Round trip in milliseconds that _handle_message computes for a pong
PongRtt(n, sender_id) ==
    IF sender_id \in DOMAIN pending_pings[n]
    THEN (now - pending_pings[n][sender_id]) * 1000
    ELSE NoRtt

\* add_static_peer(node_id, address, port) is called on the peering of n
AddStaticPeer(n, node_id) ==
    /\ peers' = [peers EXCEPT ![n] = add_static_peer(n, node_id)]
    /\ last' = [op |-> "add_static_peer", node |-> n, peer |-> node_id,
                peers_before |-> peers[n], sent |-> <<>>]
    /\ UNCHANGED <<threadVars, now, route_cache_ttl, controller_client, route_table, pending_requests,
                   relay_cache, metrics, network, message, sent_count,
                   on_relay_complete, pending_pings, buffer>>

\* MeshPeering._handle_message for a PING from sender_id at addr: a pong is
\* sent back and the sender is marked reachable
ReceivePing(n, sender_id, addr) ==
    /\ peers' = [peers EXCEPT ![n] = update_peer_status(n, sender_id, addr, "reachable", NoRtt)]
    /\ last' = [op |-> "handle_ping", node |-> n, peer |-> sender_id,
                peers_before |-> peers[n], sent |-> <<[type |-> "PONG", dst |-> addr]>>]
    /\ UNCHANGED <<threadVars, now, route_cache_ttl, controller_client, route_table, pending_requests,
                   relay_cache, metrics, network, message, sent_count,
                   on_relay_complete, pending_pings, buffer>>

\* MeshPeering._handle_message for a PONG from sender_id at addr
ReceivePong(n, sender_id, addr) ==
    /\ peers' = [peers EXCEPT ![n] =
                    update_peer_status(n, sender_id, addr, "reachable", PongRtt(n, sender_id))]
    /\ pending_pings' = [pending_pings EXCEPT ![n] =
                            [q \in DOMAIN @ \ {sender_id} |-> @[q]]]
    /\ last' = [op |-> "handle_pong", node |-> n, peer |-> sender_id,
                peers_before |-> peers[n], sent |-> <<>>]
    /\ UNCHANGED <<threadVars, now, route_cache_ttl, controller_client, route_table, pending_requests,
                   relay_cache, metrics, network, message, sent_count,
                   on_relay_complete, buffer>>

\* One iteration of the for-loop of MeshPeering._heartbeat_loop: the peer is
\* pinged, then checked for timeout
HeartbeatStep(n, node_id, send_ok) ==
    /\ node_id \in DOMAIN peers[n]
    /\ pending_pings' = [pending_pings EXCEPT ![n] = send_ping(n, node_id, send_ok)]
    /\ peers' = [peers EXCEPT ![n] = check_peer_timeout(n, node_id)]
    /\ last' = [op |-> "check_peer_timeout", node |-> n, peer |-> node_id,
                peers_before |-> peers[n],
                sent |-> IF send_ok
                         THEN <<[type |-> "PING",
                                 dst |-> <<peers[n][node_id].address, peers[n][node_id].port>>]>>
                         ELSE <<>>]
    /\ UNCHANGED <<threadVars, now, route_cache_ttl, controller_client, route_table, pending_requests,
                   relay_cache, metrics, network, message, sent_count,
                   on_relay_complete, buffer>>

----------------------------------------------------------------------------
(* LocalBuffer *)

\* BufferedItem as _add_item creates it
BufferedItem(item_type, data) ==
    [item_type |-> item_type, data |-> data, timestamp |-> now, attempt_count |-> 0]

\* LocalBuffer.__init__ with a persist path whose file holds disk_items:
\* _load_from_disk takes them all, whatever max_items is
LoadedLocalBuffer(max_items, flush_batch_size, disk_items) ==
    [max_items |-> max_items, flush_batch_size |-> flush_batch_size,
     persist_path |-> TRUE, items |-> disk_items, disk |-> disk_items]

\* (item_type, timestamp), the key mark_flushed and mark_failed match items by
ItemKey(item) == <<item.item_type, item.timestamp>>

KeysOf(items) == {ItemKey(items[i]) : i \in 1..Len(items)}

\* BufferedItem.to_dict / from_dict around json.dump and json.load
to_dict(item) ==
    [item_type |-> item.item_type, data |-> item.data,
     timestamp |-> item.timestamp, attempt_count |-> item.attempt_count]

\* LocalBuffer._save_to_disk: the persist file afterwards.  The list is
\* written to a temp file that replaces the persist file; when any step raises
\* (write_ok false) the exception is logged and the file is as it was.
save_to_disk(b, items, write_ok) ==
    IF b.persist_path /\ write_ok
    THEN [i \in 1..Len(items) |-> to_dict(items[i])]
    ELSE b.disk

add_item_drop_newest(b, item_type, data, write_ok) ==
    LET appended == Append(b.items, BufferedItem(item_type, data))
        kept     == IF Len(appended) > b.max_items
                    THEN SubSeq(appended, 1, b.max_items)
                    ELSE appended
    IN [b EXCEPT !.items = kept,
                 !.disk = IF b.persist_path /\ write_ok THEN kept ELSE @]

\* LocalBuffer._add_item: append, drop the oldest items over max_items, then
\* _save_to_disk when a persist path is set (a failing write is logged)
add_item(b, item_type, data, write_ok) ==
    LET appended == Append(b.items, BufferedItem(item_type, data))
        dropped  == Len(appended) - b.max_items
        kept     == IF Len(appended) > b.max_items
                    THEN SubSeq(appended, dropped + 1, Len(appended))
                    ELSE appended
    IN [b EXCEPT !.items = kept, !.disk = save_to_disk(b, kept, write_ok)]

\* the items added to the buffer since it was constructed, oldest first
Added == last.added

\* What the history keeps of one mutating operation on the buffer
BufferHistory(op, added, write_ok) ==
    [op |-> op, loaded |-> last.loaded, added |-> added, write_ok |-> write_ok,
     items_before |-> buffer.items, disk_before |-> buffer.disk]

\* LocalBuffer.get_items_to_flush; item_type None stands for no filter
get_items_to_flush(b, item_type) ==
    LET Wanted(i) == item_type = None \/ i.item_type = item_type
        filtered  == SelectSeq(b.items, Wanted)
    IN IF Len(filtered) <= b.flush_batch_size THEN filtered
       ELSE SubSeq(filtered, 1, b.flush_batch_size)

mark_flushed_memory_only(b, items, write_ok) ==
    LET Kept(i) == ItemKey(i) \notin KeysOf(items) IN
    [b EXCEPT !.items = SelectSeq(b.items, Kept)]

\* LocalBuffer.mark_flushed
mark_flushed(b, items, write_ok) ==
    LET Kept(i) == ItemKey(i) \notin KeysOf(items)
        kept    == SelectSeq(b.items, Kept)
    IN [b EXCEPT !.items = kept, !.disk = save_to_disk(b, kept, write_ok)]

\* LocalBuffer.mark_failed
mark_failed(b, items, write_ok) ==
    LET bumped == [i \in 1..Len(b.items) |->
                      IF ItemKey(b.items[i]) \in KeysOf(items)
                      THEN [b.items[i] EXCEPT !.attempt_count = @ + 1]
                      ELSE b.items[i]]
    IN [b EXCEPT !.items = bumped, !.disk = save_to_disk(b, bumped, write_ok)]

\* LocalBuffer.clear
clear(b, write_ok) ==
    [b EXCEPT !.items = <<>>, !.disk = save_to_disk(b, <<>>, write_ok)]

\* LocalBuffer.add_telemetry
AddTelemetry(telemetry_data, write_ok) ==
    /\ buffer' = add_item(buffer, "telemetry", telemetry_data, write_ok)
    /\ last' = BufferHistory("add", Append(Added, BufferedItem("telemetry", telemetry_data)),
                             write_ok)
    /\ UNCHANGED <<threadVars, now, route_cache_ttl, peers, controller_client, route_table,
                   pending_requests, relay_cache, metrics, network, message, sent_count,
                   on_relay_complete, pending_pings>>

\* LocalBuffer.add_command_result
AddCommandResult(command_id, result, write_ok) ==
    LET data == [command_id |-> command_id, result |-> result] IN
    /\ buffer' = add_item(buffer, "command_result", data, write_ok)
    /\ last' = BufferHistory("add", Append(Added, BufferedItem("command_result", data)),
                             write_ok)
    /\ UNCHANGED <<threadVars, now, route_cache_ttl, peers, controller_client, route_table,
                   pending_requests, relay_cache, metrics, network, message, sent_count,
                   on_relay_complete, pending_pings>>

\* mark_flushed(items) is called with a batch taken by get_items_to_flush
MarkFlushed(item_type, write_ok) ==
    LET items == get_items_to_flush(buffer, item_type) IN
    /\ buffer' = mark_flushed(buffer, items, write_ok)
    /\ last' = BufferHistory("mark_flushed", Added, write_ok) @@ [batch |-> items]
    /\ UNCHANGED <<threadVars, now, route_cache_ttl, peers, controller_client, route_table,
                   pending_requests, relay_cache, metrics, network, message, sent_count,
                   on_relay_complete, pending_pings>>

\* mark_failed(items) is called with a batch taken by get_items_to_flush
MarkFailed(item_type, write_ok) ==
    LET items == get_items_to_flush(buffer, item_type) IN
    /\ buffer' = mark_failed(buffer, items, write_ok)
    /\ last' = BufferHistory("mark_failed", Added, write_ok) @@ [batch |-> items]
    /\ UNCHANGED <<threadVars, now, route_cache_ttl, peers, controller_client, route_table,
                   pending_requests, relay_cache, metrics, network, message, sent_count,
                   on_relay_complete, pending_pings>>

\* LocalBuffer.clear is called
Clear(write_ok) ==
    /\ buffer' = clear(buffer, write_ok)
    /\ last' = BufferHistory("clear", Added, write_ok)
    /\ UNCHANGED <<threadVars, now, route_cache_ttl, peers, controller_client, route_table,
                   pending_requests, relay_cache, metrics, network, message, sent_count,
                   on_relay_complete, pending_pings>>

\* The clock advances between operations on the buffer
TickBuffer(d) ==
    /\ now' = now + d
    /\ UNCHANGED <<threadVars, route_cache_ttl, peers, controller_client, route_table,
                   pending_requests, relay_cache, metrics, network, message, sent_count,
                   on_relay_complete, pending_pings, buffer, last>>

\* The clock advances between handlers
Tick(d) ==
    /\ now' = now + d
    /\ last' = Idle
    /\ UNCHANGED <<threadVars, route_cache_ttl, peers, controller_client, route_table,
                   pending_requests, relay_cache, metrics, network, message, sent_count,
                   on_relay_complete, pending_pings, buffer>>

\* The Controller Client reaches the controller: last_success is set
ControllerContact(n) ==
    /\ controller_client' = [controller_client EXCEPT ![n].last_success = now]
    /\ last' = Idle
    /\ UNCHANGED <<threadVars, now, route_cache_ttl, peers, route_table, pending_requests,
                   relay_cache, metrics, network, message, sent_count,
                   on_relay_complete, pending_pings, buffer>>

\* select_best_route(destination) is called; the history keeps what it returned
SelectBestRoute(n, destination) ==
    /\ last' = [op |-> "select_best_route", node |-> n, destination |-> destination,
                at |-> now, result |-> select_best_route(n, destination)]
    /\ UNCHANGED <<threadVars, now, route_cache_ttl, peers, controller_client, route_table,
                   pending_requests, relay_cache, metrics, network, message, sent_count,
                   on_relay_complete, pending_pings, buffer>>

\* has_route_to(destination) is called; the history keeps what it returned
HasRouteTo(n, destination) ==
    /\ last' = [op |-> "has_route_to", node |-> n, destination |-> destination,
                at |-> now, result |-> has_route_to(n, destination)]
    /\ UNCHANGED <<threadVars, now, route_cache_ttl, peers, controller_client, route_table,
                   pending_requests, relay_cache, metrics, network, message, sent_count,
                   on_relay_complete, pending_pings, buffer>>

\* can_reach_controller_directly() is called; the history keeps the client it
\* looked at and what it returned
CanReachControllerDirectly(n) ==
    /\ last' = [op |-> "can_reach_controller_directly", node |-> n, at |-> now,
                client |-> controller_client[n],
                result |-> can_reach_controller_directly(n)]
    /\ UNCHANGED <<threadVars, now, route_cache_ttl, peers, controller_client, route_table,
                   pending_requests, relay_cache, metrics, network, message, sent_count,
                   on_relay_complete, pending_pings, buffer>>

----------------------------------------------------------------------------
(* Threads of one agent.  The agent loop calls relay_message and            *)
(* select_best_route; the listener thread runs the handlers of              *)
(* NodeAgent._handle_mesh_message; any thread may ask get_routing_status.   *)
(* An operation is the sequence of its accesses to the shared state, one    *)
(* step each: `with self._lock` is an acquire and a release, and            *)
(* `x += 1` is a load followed by a store (Python defines no atomicity for  *)
(* it).                                                                     *)

Instr(k, a) == [k |-> k, a |-> a]

\* relay_message up to the send: get_all_routes, then the cache entry
RelayPrefix ==
    <<Instr("acquire", "get_all_routes"), Instr("local", "copy_routes"),
      Instr("release", "get_all_routes"),
      Instr("acquire", "relay_cache"), Instr("cache_add", "relay_cache"),
      Instr("release", "relay_cache")>>

\* relay_message refusing a message at its hop limit
RelayTtl == <<Instr("load", "failed_relays"), Instr("store", "failed_relays")>>

\* relay_message whose first send succeeds
RelaySent ==
    RelayPrefix \o
    <<Instr("local", "sendto"),
      Instr("route_load", "success_count"), Instr("route_store", "success_count"),
      Instr("load", "messages_relayed"), Instr("store", "messages_relayed")>>

\* relay_message whose send fails, with no other route to try
RelayExhausted ==
    RelayPrefix \o
    <<Instr("local", "sendto"),
      Instr("route_load", "failure_count"), Instr("route_store", "failure_count"),
      Instr("load", "failed_relays"), Instr("store", "failed_relays"),
      Instr("acquire", "relay_cache"), Instr("cache_remove", "relay_cache"),
      Instr("release", "relay_cache")>>

\* select_best_route / has_route_to
SelectRoute ==
    <<Instr("acquire", "select_best_route"), Instr("local", "copy_routes"),
      Instr("release", "select_best_route")>>

\* handle_incoming_relay for "controller" at a node whose link is usable and
\* whose controller accepts the heartbeat: _forward_to_controller
ForwardAccepted ==
    <<Instr("can_reach", "handle_incoming_relay"), Instr("client", "heartbeat"),
      Instr("load", "successful_deliveries"), Instr("store", "successful_deliveries"),
      Instr("local", "iterate_route_table"),
      Instr("route_load", "success_count"), Instr("route_store", "success_count"),
      Instr("local", "send_relay_ack")>>

\* the same when the controller call fails
ForwardRejected ==
    <<Instr("can_reach", "handle_incoming_relay"), Instr("client", "heartbeat"),
      Instr("local", "send_relay_ack")>>

\* handle_incoming_relay that re-forwards: relay_message on the listener thread
InboundSent == <<Instr("can_reach", "handle_incoming_relay")>> \o RelaySent

InboundExhausted == <<Instr("can_reach", "handle_incoming_relay")>> \o RelayExhausted

\* handle_route_response for a pending request
RouteResponse ==
    <<Instr("acquire", "pending_requests"), Instr("local", "check_pending"),
      Instr("release", "pending_requests"),
      Instr("acquire", "route_table"), Instr("update_route", "route_table"),
      Instr("release", "route_table")>>

\* handle_relay_ack
RelayAck ==
    <<Instr("acquire", "relay_cache"), Instr("cache_remove", "relay_cache"),
      Instr("release", "relay_cache")>>

\* get_routing_status: everything, can_reach_controller_directly included,
\* is inside `with self._lock`
RoutingStatus ==
    <<Instr("acquire", "get_routing_status"), Instr("local", "copy_routes"),
      Instr("can_reach", "get_routing_status"), Instr("local", "copy_metrics"),
      Instr("release", "get_routing_status")>>

Program(op) ==
    CASE op = "relay_ttl" -> RelayTtl
      [] op = "relay_sent" -> RelaySent
      [] op = "relay_exhausted" -> RelayExhausted
      [] op = "select_best_route" -> SelectRoute
      [] op = "forward_accepted" -> ForwardAccepted
      [] op = "forward_rejected" -> ForwardRejected
      [] op = "inbound_sent" -> InboundSent
      [] op = "inbound_exhausted" -> InboundExhausted
      [] op = "handle_route_response" -> RouteResponse
      [] op = "handle_relay_ack" -> RelayAck
      [] op = "get_routing_status" -> RoutingStatus

\* the operations each thread may be in; what the listener does with an
\* inbound message for the controller depends on the direct link
OpsOf(t) ==
    CASE t = "agent" -> {"relay_ttl", "relay_sent", "relay_exhausted", "select_best_route"}
      [] t = "listener" ->
            (IF can_reach_controller_directly(Self)
             THEN {"forward_accepted", "forward_rejected"}
             ELSE {"inbound_sent", "inbound_exhausted"})
            \cup {"handle_route_response", "handle_relay_ack"}
      [] t = "status" -> {"get_routing_status"}
      [] OTHER -> {}

NoInstr == Instr("none", "none")

\* the step thread t takes next
NextInstr(t) == IF pc[t] = IdlePc THEN NoInstr ELSE Program(pc[t].op)[pc[t].i]

\* can_reach_controller_directly asks health_check() when last_success is
\* unset and the client has the method
AsksHealthCheck ==
    /\ controller_client[Self].last_success = NoTime
    /\ controller_client[Self].health_check # "absent"

\* the next step of t is a call into the Controller Client
CallsClient(t) ==
    \/ NextInstr(t).k = "client"
    \/ NextInstr(t).k = "can_reach" /\ AsksHealthCheck

Advanced(t) ==
    [pc EXCEPT ![t] = IF @.i = Len(Program(@.op)) THEN IdlePc ELSE [@ EXCEPT !.i = @ + 1]]

\* the message id each thread relays
RelayIdOf(t) == IF t = "agent" THEN "m1" ELSE "m2"

\* thread t enters operation op
Begin(t, op) ==
    /\ pc[t] = IdlePc
    /\ op \in OpsOf(t)
    /\ pc' = [pc EXCEPT ![t] = [op |-> op, i |-> 1]]
    /\ last' = [last EXCEPT !.started[t] = @ + 1]
    /\ UNCHANGED <<now, route_cache_ttl, peers, controller_client, route_table,
                   pending_requests, relay_cache, metrics, network, message,
                   on_relay_complete, pending_pings, buffer, running, socket, lock, reg,
                   sent_count>>

\* `with self._lock:` is entered; threading.Lock is not reentrant
Acquire(t) ==
    /\ NextInstr(t).k = "acquire"
    /\ lock = None
    /\ lock' = t
    /\ pc' = Advanced(t)
    /\ UNCHANGED <<now, route_cache_ttl, peers, controller_client, route_table,
                   pending_requests, relay_cache, metrics, network, message,
                   on_relay_complete, pending_pings, buffer, running, socket, reg,
                   sent_count, last>>

\* the with-block is left
Release(t) ==
    /\ NextInstr(t).k = "release"
    /\ lock' = None
    /\ pc' = Advanced(t)
    /\ UNCHANGED <<now, route_cache_ttl, peers, controller_client, route_table,
                   pending_requests, relay_cache, metrics, network, message,
                   on_relay_complete, pending_pings, buffer, running, socket, reg,
                   sent_count, last>>

\* self.metrics[key] += 1, first half: the value is read
LoadCounter(t) ==
    /\ NextInstr(t).k = "load"
    /\ reg' = [reg EXCEPT ![t].val = metrics[Self][NextInstr(t).a]]
    /\ pc' = Advanced(t)
    /\ UNCHANGED <<now, route_cache_ttl, peers, controller_client, route_table,
                   pending_requests, relay_cache, metrics, network, message,
                   on_relay_complete, pending_pings, buffer, running, socket, lock,
                   sent_count, last>>

\* self.metrics[key] += 1, second half: the value read, plus one, is written
StoreCounter(t) ==
    /\ NextInstr(t).k = "store"
    /\ metrics' = [metrics EXCEPT ![Self][NextInstr(t).a] = reg[t].val + 1]
    /\ last' = [last EXCEPT !.done[NextInstr(t).a] = @ + 1]
    /\ pc' = Advanced(t)
    /\ UNCHANGED <<now, route_cache_ttl, peers, controller_client, route_table,
                   pending_requests, relay_cache, network, message,
                   on_relay_complete, pending_pings, buffer, running, socket, lock, reg,
                   sent_count>>

\* route.record_success() / route.record_failure(), `self.success_count += 1`
\* first half, on the route to the controller that was sent on
LoadRouteCount(t) ==
    /\ NextInstr(t).k = "route_load"
    /\ reg' = [reg EXCEPT ![t].val = route_table[Self][CONTROLLER][1][NextInstr(t).a]]
    /\ pc' = Advanced(t)
    /\ UNCHANGED <<now, route_cache_ttl, peers, controller_client, route_table,
                   pending_requests, relay_cache, metrics, network, message,
                   on_relay_complete, pending_pings, buffer, running, socket, lock,
                   sent_count, last>>

\* second half, and the rest of record_success / record_failure
StoreRouteCount(t) ==
    LET r == route_table[Self][CONTROLLER][1]
        c == NextInstr(t).a
    IN
    /\ NextInstr(t).k = "route_store"
    /\ route_table' = [route_table EXCEPT ![Self][CONTROLLER][1] =
          IF c = "success_count"
          THEN record_success([r EXCEPT !.success_count = reg[t].val])
          ELSE record_failure([r EXCEPT !.failure_count = reg[t].val])]
    /\ last' = [last EXCEPT !.done[c] = @ + 1]
    /\ pc' = Advanced(t)
    /\ UNCHANGED <<now, route_cache_ttl, peers, controller_client,
                   pending_requests, relay_cache, metrics, network, message,
                   on_relay_complete, pending_pings, buffer, running, socket, lock, reg,
                   sent_count>>

\* self.relay_cache[message_id] = message / self.relay_cache.pop(message_id)
CacheStep(t) ==
    /\ NextInstr(t).k \in {"cache_add", "cache_remove"}
    /\ relay_cache' = [relay_cache EXCEPT ![Self] =
          IF NextInstr(t).k = "cache_add" THEN @ \cup {RelayIdOf(t)}
          ELSE IF pc[t].op = "handle_relay_ack" THEN handle_relay_ack(Self, "m1", TRUE).cache
          ELSE @ \ {RelayIdOf(t)}]
    /\ pc' = Advanced(t)
    /\ UNCHANGED <<now, route_cache_ttl, peers, controller_client, route_table,
                   pending_requests, metrics, network, message,
                   on_relay_complete, pending_pings, buffer, running, socket, lock, reg,
                   sent_count, last>>

\* handle_route_response, "Add to route table": a response of peer n2 or n3
\* for the pending request
UpdateRoute(t, sender_id) ==
    LET res == handle_route_response(Self, sender_id, AddrOf(sender_id), "r1",
                                     CONTROLLER, 0, DIRECT_RTT) IN
    /\ NextInstr(t).k = "update_route"
    /\ route_table' = [route_table EXCEPT ![Self] = res.table]
    /\ metrics' = [metrics EXCEPT ![Self] = res.metrics]
    /\ last' = [last EXCEPT !.done["routes_discovered"] =
                    @ + (res.metrics.routes_discovered - metrics[Self].routes_discovered)]
    /\ pc' = Advanced(t)
    /\ UNCHANGED <<now, route_cache_ttl, peers, controller_client,
                   pending_requests, relay_cache, network, message,
                   on_relay_complete, pending_pings, buffer, running, socket, lock, reg,
                   sent_count>>

\* a step that writes no shared state: a copy, a send, a call into the
\* Controller Client
LocalStep(t) ==
    /\ NextInstr(t).k \in {"local", "client", "can_reach"}
    /\ pc' = Advanced(t)
    /\ UNCHANGED <<now, route_cache_ttl, peers, controller_client, route_table,
                   pending_requests, relay_cache, metrics, network, message,
                   on_relay_complete, pending_pings, buffer, running, socket, lock, reg,
                   sent_count, last>>

----------------------------------------------------------------------------
(* MeshPeering.stop, the listener loop and the heartbeat loop *)

TerminatedPc == [op |-> "terminated", i |-> 0]   \* the thread's target returned
StoppedPc == [op |-> "stopped", i |-> 0]         \* stop() has returned to the agent

listener_continues_always == TRUE

\* `while self.running and self._socket`: a closed socket object is still truthy
listener_continues == running /\ socket # None

\* `while self.running`
heartbeat_continues == running

PeerList_skips_unreachable(n) ==
    LET live(p) == p \in DOMAIN peers[n] /\ peers[n][p].status # "unreachable"
    IN SelectSeq(<<"n2", "n3">>, live)

\* list(self.peers.values()): the peers in insertion order
PeerList(n) ==
    LET known(p) == p \in DOMAIN peers[n] IN SelectSeq(<<"n2", "n3">>, known)

\* MeshRouter._send_to_peer: with the socket released it raises RuntimeError,
\* on a closed socket sendto raises OSError; either way the attempt fails
send_to_peer(fails) ==
    IF socket = "open" THEN fails ELSE 1..(DEFAULT_MAX_RETRIES + 1)

\* _listener_loop: the loop test
ListenerTest ==
    /\ pc["listener"] = [op |-> "listener_loop", i |-> 1]
    /\ pc' = [pc EXCEPT !["listener"] =
                 IF listener_continues THEN [op |-> "listener_loop", i |-> 2]
                 ELSE TerminatedPc]
    /\ UNCHANGED <<now, route_cache_ttl, peers, controller_client, route_table,
                   pending_requests, relay_cache, metrics, network, message,
                   on_relay_complete, pending_pings, buffer, running, socket, lock, reg,
                   sent_count, last>>

\* _listener_loop: recvfrom and _handle_message.  On an open socket the call
\* times out after a second or returns the PING of a peer; on a socket that
\* was closed or released under it, it raises.  Every outcome leads back to
\* the loop test.
ListenerReceive(sender) ==
    /\ pc["listener"] = [op |-> "listener_loop", i |-> 2]
    /\ pc' = [pc EXCEPT !["listener"] = [op |-> "listener_loop", i |-> 1]]
    /\ peers' = IF socket = "open" /\ sender # None
                THEN [peers EXCEPT ![Self] =
                         update_peer_status(Self, sender, AddrOf(sender), "reachable", NoRtt)]
                ELSE peers
    /\ UNCHANGED <<now, route_cache_ttl, controller_client, route_table,
                   pending_requests, relay_cache, metrics, network, message,
                   on_relay_complete, pending_pings, buffer, running, socket, lock, reg,
                   sent_count, last>>

\* _heartbeat_loop: the loop test; entering the body copies the peer list
HeartbeatTest ==
    /\ pc["heartbeat"] = [op |-> "heartbeat_loop", i |-> 1]
    /\ pc' = [pc EXCEPT !["heartbeat"] =
                 IF heartbeat_continues THEN [op |-> "heartbeat_loop", i |-> 2]
                 ELSE TerminatedPc]
    /\ reg' = [reg EXCEPT !["heartbeat"].todo =
                  IF heartbeat_continues THEN PeerList(Self) ELSE <<>>]
    /\ UNCHANGED <<now, route_cache_ttl, peers, controller_client, route_table,
                   pending_requests, relay_cache, metrics, network, message,
                   on_relay_complete, pending_pings, buffer, running, socket, lock,
                   sent_count, last>>

\* _heartbeat_loop: one iteration of the for loop, _send_ping and
\* _check_peer_timeout on the next peer; after the last peer, the sleep
HeartbeatFor(send_ok) ==
    LET todo == reg["heartbeat"].todo IN
    /\ pc["heartbeat"] = [op |-> "heartbeat_loop", i |-> 2]
    /\ IF todo = <<>>
       THEN /\ pc' = [pc EXCEPT !["heartbeat"] = [op |-> "heartbeat_loop", i |-> 3]]
            /\ UNCHANGED <<pending_pings, peers, reg>>
       ELSE /\ pending_pings' = [pending_pings EXCEPT ![Self] =
                                    send_ping(Self, Head(todo), socket = "open" /\ send_ok)]
            /\ peers' = [peers EXCEPT ![Self] = check_peer_timeout(Self, Head(todo))]
            /\ reg' = [reg EXCEPT !["heartbeat"].todo = Tail(todo)]
            /\ UNCHANGED pc
    /\ UNCHANGED <<now, route_cache_ttl, controller_client, route_table,
                   pending_requests, relay_cache, metrics, network, message,
                   on_relay_complete, buffer, running, socket, lock,
                   sent_count, last>>

\* _heartbeat_loop: time.sleep(self.heartbeat_interval) returns
HeartbeatSleep ==
    /\ pc["heartbeat"] = [op |-> "heartbeat_loop", i |-> 3]
    /\ pc' = [pc EXCEPT !["heartbeat"] = [op |-> "heartbeat_loop", i |-> 1]]
    /\ UNCHANGED <<now, route_cache_ttl, peers, controller_client, route_table,
                   pending_requests, relay_cache, metrics, network, message,
                   on_relay_complete, pending_pings, buffer, running, socket, lock, reg,
                   sent_count, last>>

\* stop(): self.running = False
StopFlag ==
    /\ pc["agent"] = IdlePc
    /\ running' = FALSE
    /\ pc' = [pc EXCEPT !["agent"] = [op |-> "stop", i |-> 2]]
    /\ last' = Idle
    /\ UNCHANGED <<now, route_cache_ttl, peers, controller_client, route_table,
                   pending_requests, relay_cache, metrics, network, message,
                   on_relay_complete, pending_pings, buffer, socket, lock, reg,
                   sent_count>>

\* stop(): self._socket.close(), if there is a socket
StopClose ==
    /\ pc["agent"] = [op |-> "stop", i |-> 2]
    /\ socket' = IF socket # None THEN "closed" ELSE socket
    /\ pc' = [pc EXCEPT !["agent"] = [op |-> "stop", i |-> IF socket # None THEN 3 ELSE 4]]
    /\ UNCHANGED <<now, route_cache_ttl, peers, controller_client, route_table,
                   pending_requests, relay_cache, metrics, network, message,
                   on_relay_complete, pending_pings, buffer, running, lock, reg,
                   sent_count, last>>

\* stop(): self._socket = None
StopRelease ==
    /\ pc["agent"] = [op |-> "stop", i |-> 3]
    /\ socket' = None
    /\ pc' = [pc EXCEPT !["agent"] = [op |-> "stop", i |-> 4]]
    /\ UNCHANGED <<now, route_cache_ttl, peers, controller_client, route_table,
                   pending_requests, relay_cache, metrics, network, message,
                   on_relay_complete, pending_pings, buffer, running, lock, reg,
                   sent_count, last>>

\* stop(): the two join(timeout=2.0) calls return, whether or not the
\* threads have ended
StopJoin ==
    /\ pc["agent"] = [op |-> "stop", i |-> 4]
    /\ pc' = [pc EXCEPT !["agent"] = StoppedPc]
    /\ UNCHANGED <<now, route_cache_ttl, peers, controller_client, route_table,
                   pending_requests, relay_cache, metrics, network, message,
                   on_relay_complete, pending_pings, buffer, running, socket, lock, reg,
                   sent_count, last>>

\* The agent loop sends a heartbeat over the mesh, before stop() or after it
RelayAroundStop(fails) ==
    /\ pc["agent"] \in {IdlePc, StoppedPc}
    /\ SendHeartbeatViaMesh(Self, "m1", MaxHopsBound, send_to_peer(fails))

----------------------------------------------------------------------------
(* Initial state: routers as MeshRouter.__init__ leaves them, peers as        *)
(* add_static_peer leaves them                                               *)

InitMetrics ==
    [routes_discovered |-> 0, messages_relayed |-> 0,
     successful_deliveries |-> 0, failed_relays |-> 0]

\* everything but the route tables and what discovery leaves behind
InitBase(ttls) ==
    /\ now = 0
    /\ ServiceStarted
    /\ \E t \in ttls : route_cache_ttl = [n \in Nodes |-> t]
    /\ peers = [n \in Nodes |-> [p \in Nodes \ {n} |-> StaticPeer(p)]]
    /\ controller_client = [n \in Nodes |-> [last_success |-> NoTime, health_check |-> "absent"]]
    /\ relay_cache = [n \in Nodes |-> {}]
    /\ network = {}
    /\ on_relay_complete = [n \in Nodes |-> FALSE]
    /\ pending_pings = [n \in Nodes |-> EmptyMap]
    /\ message = NoMessage
    /\ sent_count = [id \in MsgIds |-> 0]
    /\ last = Idle

\* LocalBuffer.__init__ without a persist path: nothing is loaded
NewLocalBuffer(max_items, flush_batch_size) ==
    [max_items |-> max_items, flush_batch_size |-> flush_batch_size,
     persist_path |-> FALSE, items |-> <<>>, disk |-> <<>>]

InitRouters(ttls) ==
    /\ InitBase(ttls)
    /\ buffer = NewLocalBuffer(DEFAULT_MAX_ITEMS, DEFAULT_FLUSH_BATCH)
    /\ route_table = [n \in Nodes |-> EmptyMap]
    /\ pending_requests = [n \in Nodes |-> EmptyMap]
    /\ metrics = [n \in Nodes |-> InitMetrics]

\* Guards that keep the counters of the model finite
CountsBelow(n, destination, cap) ==
    \A i \in 1..Len(RoutesTo(n, destination)) :
        RoutesTo(n, destination)[i].success_count
            + RoutesTo(n, destination)[i].failure_count < cap

MetricsBelow(n, cap) ==
    /\ metrics[n].failed_relays < cap
    /\ metrics[n].messages_relayed < cap
    /\ metrics[n].successful_deliveries < cap

\* no relay_message call has been made on router n (SpecBreaker lets routes age
\* only until then; SpecNet originates one message)
NoRelayYet(n) == metrics[n].messages_relayed = 0 /\ metrics[n].failed_relays = 0

DiscoveredBelow(n, cap) == metrics[n].routes_discovered < cap

FailPatterns == SUBSET (1..(MaxRetriesBound + 1))

\* The path a message took before it reached this router: alternately n2, n3
InboundTrace(h) == [i \in 1..h |-> IF i % 2 = 1 THEN "n2" ELSE "n3"]

\* Messages a caller hands to relay_message: the agent loop's own (hop 0, empty
\* trace) and messages relayed for n2 that already made h hops
CallerMessages ==
    {NewRelayMessage(id, "heartbeat", IF h = 0 THEN Self ELSE "n2", d, h, mh, InboundTrace(h)) :
        id \in MsgIds, d \in {CONTROLLER}, h \in {0, MaxHopsBound - 1}, mh \in {MaxHopsBound}}

\* Messages that arrive in RELAY_DATA frames from n2
InboundMessages ==
    {NewRelayMessage(id, "heartbeat", "n2", CONTROLLER, h, MaxHopsBound, InboundTrace(h)) :
        id \in MsgIds, h \in {MaxHopsBound - 1, MaxHopsBound}}

----------------------------------------------------------------------------
(* Spec: one router without a controller link; the contract of relay_message *)
(* for the caller's message object and for inbound frames                    *)

SpecResponses == {<<"n2", 1>>, <<"n3", 0>>}   \* responder, hops it reports
SpecRtts == {10}

Init == InitRouters({ROUTE_EXPIRY_SECONDS})

Next ==
    \/ \E r \in ReqIds : DiscoverRoutes(Self, r, CONTROLLER)
    \/ \E p \in SpecResponses, r \in ReqIds, t \in SpecRtts :
          /\ DiscoveredBelow(Self, Cardinality(Nodes))
          /\ HandleRouteResponse(Self, p[1], AddrOf(p[1]), r, CONTROLLER, p[2], t)
    \/ \E d \in TickSteps : now + d <= MaxTicks * d /\ Tick(d)
    \/ \E m \in CallerMessages : NewMessage(m)
    \/ \E k \in 0..MaxRetriesBound, f \in FailPatterns :
          /\ MetricsBelow(Self, MaxMetric)
          /\ RelayMessage(Self, k, f)
    \/ \E m \in InboundMessages, f \in FailPatterns :
          /\ MetricsBelow(Self, MaxMetric)
          /\ HandleIncomingRelay(Self, m, AddrOf("n2"), "accepted", f)

Spec == Init /\ [][Next]_vars

----------------------------------------------------------------------------
(* SpecSelect: route selection over tables with every combination of hop *)
(* count, RTT and reliability, in both insertion orders                   *)

SelectResponders == Nodes \ {Self}
SelectHops == {0, 1}
SelectRtts == {10, 40}

InitSelect == InitRouters({ROUTE_EXPIRY_SECONDS})

NextSelect ==
    \/ \E r \in ReqIds : DiscoverRoutes(Self, r, CONTROLLER)
    \/ \E p \in SelectResponders, r \in ReqIds, h \in SelectHops, t \in SelectRtts :
          /\ DiscoveredBelow(Self, Cardinality(Nodes))
          /\ HandleRouteResponse(Self, p, AddrOf(p), r, CONTROLLER, h, t)
    \/ \E d \in TickSteps : now + d <= MaxTicks * d /\ Tick(d)
    \/ \E id \in MsgIds, f \in FailPatterns :
          /\ CountsBelow(Self, CONTROLLER, MaxCount)
          /\ SendHeartbeatViaMesh(Self, id, MaxHopsBound, f)
    \/ \E d \in Dests : SelectBestRoute(Self, d)

SpecSelect == InitSelect /\ [][NextSelect]_vars

----------------------------------------------------------------------------
(* SpecExpiry: route ageing under each configured route_cache_ttl *)

ExpiryResponses == {<<"n2", 0>>, <<"n3", 1>>}
ExpiryRtts == {10}

InitExpiry == InitRouters(TtlConfigs)

NextExpiry ==
    \/ \E r \in ReqIds : DiscoverRoutes(Self, r, CONTROLLER)
    \/ \E p \in ExpiryResponses, r \in ReqIds, t \in ExpiryRtts :
          /\ DiscoveredBelow(Self, Cardinality(Nodes))
          /\ HandleRouteResponse(Self, p[1], AddrOf(p[1]), r, CONTROLLER, p[2], t)
    \/ \E d \in SelectTickSteps : now + d <= MaxSelectTicks * d /\ Tick(d)
    \/ \E id \in MsgIds, f \in FailPatterns :
          /\ CountsBelow(Self, CONTROLLER, MaxCount)
          /\ SendHeartbeatViaMesh(Self, id, MaxHopsBound, f)
    \/ \E d \in Dests : SelectBestRoute(Self, d)
    \/ \E d \in Dests : HasRouteTo(Self, d)
    \/ CleanupExpiredRoutes(Self)

SpecExpiry == InitExpiry /\ [][NextExpiry]_vars

----------------------------------------------------------------------------
(* SpecBreaker: the circuit breaker, with route counters up to MaxBreakerCount *)

BreakerResponses == {<<"n2", 0>>, <<"n3", 1>>}
BreakerRtts == {10}

InitBreaker == InitRouters({ROUTE_EXPIRY_SECONDS})

NextBreaker ==
    \/ \E r \in ReqIds : DiscoverRoutes(Self, r, CONTROLLER)
    \/ \E p \in BreakerResponses, r \in ReqIds, t \in BreakerRtts :
          /\ DiscoveredBelow(Self, Cardinality(Nodes))
          /\ HandleRouteResponse(Self, p[1], AddrOf(p[1]), r, CONTROLLER, p[2], t)
    \/ \E id \in MsgIds, f \in FailPatterns :
          /\ CountsBelow(Self, CONTROLLER, MaxBreakerCount)
          /\ SendHeartbeatViaMesh(Self, id, MaxHopsBound, f)
    \/ \E d \in TickSteps : now + d <= MaxTicks * d /\ NoRelayYet(Self) /\ Tick(d)

SpecBreaker == InitBreaker /\ [][NextBreaker]_vars

----------------------------------------------------------------------------
(* SpecNet: three routers whose route tables to the controller point at each *)
(* other in every possible way, cycles included; one heartbeat travels       *)

\* the lists of distinct next hops, at most two long
NextHopLists ==
    {<<>>} \cup {<<p>> : p \in Nodes} \cup
    {s \in Nodes \X Nodes : s[1] # s[2]}

NetTables == {t \in [Nodes -> NextHopLists] :
                 \A n \in Nodes : \A i \in 1..Len(t[n]) : t[n][i] # n}

NetGateways == {"n3"}       \* nodes whose Controller Client can reach the controller
NetHops == 0                \* hops the responders reported
NetRtt == 10                \* RTT the responders reported

\* route_table of n after responses from the peers of `hops`, in that order, at time 0
NetRoutes(hops) ==
    IF hops = <<>> THEN EmptyMap
    ELSE (CONTROLLER :> [i \in 1..Len(hops) |->
             NewRoutePath(CONTROLLER, hops[i], AddrOf(hops[i]), NetHops + 1,
                          NetRtt + DEFAULT_PEER_RTT, 0)])

\* every router has run discover_routes once and stored the responses it got
InitNet ==
    /\ InitBase({ROUTE_EXPIRY_SECONDS})
    /\ \E t \in NetTables :
          /\ route_table = [n \in Nodes |-> NetRoutes(t[n])]
          /\ metrics = [n \in Nodes |-> [InitMetrics EXCEPT !.routes_discovered = Len(t[n])]]
    /\ pending_requests = [n \in Nodes |-> ("r1" :> 0)]
    /\ buffer = NewLocalBuffer(DEFAULT_MAX_ITEMS, DEFAULT_FLUSH_BATCH)

NextNet ==
    \/ \E n \in Nodes, id \in MsgIds, f \in FailPatterns :
          /\ \A k \in Nodes : NoRelayYet(k)
          /\ SendHeartbeatViaMesh(n, id, MaxHopsBound, f)
    \/ \E d \in network, o \in {"accepted", "rejected", "raises"}, f \in FailPatterns :
          DeliverRelay(d, o, f)
    \/ \E d \in network : LoseDatagram(d)
    \/ \E n \in NetGateways : ControllerContact(n)

SpecNet == InitNet /\ [][NextNet]_vars

----------------------------------------------------------------------------
(* SpecInbound: one router that may hold a controller link, receiving      *)
(* RELAY_DATA frames of every message type from peer n2                    *)

MsgTypes == {"heartbeat", "command_result", "command"}

\* What the Controller Client does with a call: heartbeat returns a list
\* ("accepted") or None ("rejected"), report_command_result returns True or
\* False, or the call raises
ClientOutcomes == {"accepted", "rejected", "raises"}

\* Messages originated by n3 that reach this router from n2
TerminalMessages ==
    {NewRelayMessage(id, t, "n3", d, 2, MaxHopsBound, <<"n3", "n2">>) :
        id \in MsgIds, t \in MsgTypes, d \in {CONTROLLER, Self}}

InboundResponses == {<<"n2", 1>>}

InitInbound == InitRouters({ROUTE_EXPIRY_SECONDS})

NextInbound ==
    \/ \E r \in ReqIds : DiscoverRoutes(Self, r, CONTROLLER)
    \/ \E p \in InboundResponses, r \in ReqIds, t \in SpecRtts :
          /\ DiscoveredBelow(Self, Cardinality(Nodes))
          /\ HandleRouteResponse(Self, p[1], AddrOf(p[1]), r, CONTROLLER, p[2], t)
    \/ ControllerContact(Self)
    \/ \E d \in TickSteps : now + d <= MaxTicks * d /\ Tick(d)
    \/ \E m \in TerminalMessages, o \in ClientOutcomes, f \in FailPatterns :
          /\ MetricsBelow(Self, MaxMetric)
          /\ CountsBelow(Self, CONTROLLER, MaxBreakerCount)
          /\ HandleIncomingRelay(Self, m, AddrOf("n2"), o, f)

SpecInbound == InitInbound /\ [][NextInbound]_vars

----------------------------------------------------------------------------
(* SpecDispatch: one router receiving RELAY_DATA frames for the controller, *)
(* for itself and for a third node, below and at their hop limit, and      *)
(* frames that do not parse                                                *)

DispatchTypes == {"heartbeat", "command"}
DispatchDests == {CONTROLLER, Self, "n9"}

\* Messages originated by n3 that reach this router from n2
DispatchMessages ==
    {NewRelayMessage(id, t, "n3", d, h, MaxHopsBound, <<"n3", "n2">>) :
        id \in MsgIds, t \in DispatchTypes, d \in DispatchDests,
        h \in {MaxHopsBound - 1, MaxHopsBound}}

InitDispatch == InitRouters({ROUTE_EXPIRY_SECONDS})

NextDispatch ==
    \/ \E r \in ReqIds : DiscoverRoutes(Self, r, CONTROLLER)
    \/ \E p \in InboundResponses, r \in ReqIds, t \in SpecRtts :
          /\ DiscoveredBelow(Self, Cardinality(Nodes))
          /\ HandleRouteResponse(Self, p[1], AddrOf(p[1]), r, CONTROLLER, p[2], t)
    \/ ControllerContact(Self)
    \/ \E d \in TickSteps : now + d <= MaxTicks * d /\ Tick(d)
    \/ \E m \in DispatchMessages, f \in FailPatterns :
          /\ MetricsBelow(Self, MaxMetric)
          /\ HandleIncomingRelay(Self, m, AddrOf("n2"), "accepted", f)
    \/ HandleMalformedRelay(Self)

SpecDispatch == InitDispatch /\ [][NextDispatch]_vars

----------------------------------------------------------------------------
(* SpecDiscovery: one router's requests and the ROUTE_RESPONSE frames it   *)
(* receives, from peers and from a node that is not in its peer table      *)

DiscRequestIds == ReqIds \cup {"r2"}           \* ids discover_routes allocates
DiscResponseIds == DiscRequestIds \cup {"r0"}  \* "r0": an id never requested
DiscSenders == {"n2", "n4"}                    \* "n4" is not in the peer table
DiscHops == {0, 1}

\* A responder answers from its mesh port or from another source port
SenderAddrs(sender_id) == {AddrOf(sender_id), <<sender_id, MESH_PORT + 1>>}

InitDiscovery == InitRouters({ROUTE_EXPIRY_SECONDS})

NextDiscovery ==
    \/ \E r \in DiscRequestIds : DiscoverRoutes(Self, r, CONTROLLER)
    \/ \E sender \in DiscSenders, r \in DiscResponseIds, h \in DiscHops, t \in SpecRtts :
          \E a \in SenderAddrs(sender) :
             /\ DiscoveredBelow(Self, Cardinality(Nodes))
             /\ ReceiveRouteResponse(Self, sender, a, r, CONTROLLER, h, t)
    \/ \E d \in TickSteps : now + d <= MaxTicks * d /\ Tick(d)
    \/ CleanupExpiredRoutes(Self)
    \/ \E p \in DiscSenders : InvalidateRoute(Self, CONTROLLER, p)

SpecDiscovery == InitDiscovery /\ [][NextDiscovery]_vars

----------------------------------------------------------------------------
(* SpecPeering: the peering of one node: static adds, sightings of n2 and  *)
(* n3 on the wire, the heartbeat loop and the passing of time              *)

PeerIds == Nodes \ {Self}
PeerTickSteps == {2 * HEARTBEAT_INTERVAL}   \* two sleeps of the heartbeat loop

\* MeshPeering.__init__: no peers, no pending pings
InitPeering ==
    /\ now = 0
    /\ ServiceStarted
    /\ route_cache_ttl = [n \in Nodes |-> ROUTE_EXPIRY_SECONDS]
    /\ peers = [n \in Nodes |-> EmptyMap]
    /\ pending_pings = [n \in Nodes |-> EmptyMap]
    /\ controller_client = [n \in Nodes |-> [last_success |-> NoTime, health_check |-> "absent"]]
    /\ relay_cache = [n \in Nodes |-> {}]
    /\ network = {}
    /\ on_relay_complete = [n \in Nodes |-> FALSE]
    /\ message = NoMessage
    /\ sent_count = [id \in MsgIds |-> 0]
    /\ last = Idle
    /\ buffer = NewLocalBuffer(DEFAULT_MAX_ITEMS, DEFAULT_FLUSH_BATCH)
    /\ route_table = [n \in Nodes |-> EmptyMap]
    /\ pending_requests = [n \in Nodes |-> EmptyMap]
    /\ metrics = [n \in Nodes |-> InitMetrics]

NextPeering ==
    \/ \E p \in Nodes : AddStaticPeer(Self, p)
    \/ \E p \in PeerIds : ReceivePing(Self, p, AddrOf(p))
    \/ \E p \in PeerIds : ReceivePong(Self, p, AddrOf(p))
    \/ \E p \in PeerIds, ok \in BOOLEAN : HeartbeatStep(Self, p, ok)
    \/ \E d \in PeerTickSteps : now + d <= MaxPeerTicks * d /\ Tick(d)

SpecPeering == InitPeering /\ [][NextPeering]_vars

----------------------------------------------------------------------------
(* SpecRequest: one router answering the ROUTE_REQUEST frames of a peer,   *)
(* with its controller link, its route table and its peer table changing;  *)
(* no further request is handled once an answer is on the wire             *)

RequestDests == {CONTROLLER, Self, "n3", "n9"}   \* "n9": a node nobody knows
RequestResponses == {<<"n2", 1>>, <<"n3", 0>>}   \* responder, hops it reports
RequestPeers == {"n3"}                           \* the peer whose status changes

InitRequest == InitRouters({ROUTE_EXPIRY_SECONDS})

NextRequest ==
    \/ \E r \in ReqIds : DiscoverRoutes(Self, r, CONTROLLER)
    \/ \E resp \in RequestResponses, r \in ReqIds, t \in SpecRtts :
          /\ DiscoveredBelow(Self, Cardinality(Nodes))
          /\ HandleRouteResponse(Self, resp[1], AddrOf(resp[1]), r, CONTROLLER, resp[2], t)
    \/ ControllerContact(Self)
    \/ \E p \in RequestPeers : ReceivePing(Self, p, AddrOf(p))
    \/ \E p \in RequestPeers : HeartbeatStep(Self, p, TRUE)
    \/ \E d \in TickSteps : now + d <= MaxTicks * d /\ Tick(d)
    \/ \E dest \in RequestDests, ok \in BOOLEAN :
          /\ \A d \in network : d.type # MSG_ROUTE_RESPONSE
          /\ HandleRouteRequest(Self, "n2", AddrOf("n2"), "q1", dest, ok)

SpecRequest == InitRequest /\ [][NextRequest]_vars

----------------------------------------------------------------------------
(* SpecBuffer: one LocalBuffer, fresh or loaded from disk, and its adds *)

TelemetryData == {[cpu_usage |-> 10], [cpu_usage |-> 90]}
CommandIds == {"c1"}
CommandResults == {[status |-> "completed"]}

\* what an earlier run left in the persist file: k items, oldest first
DiskImage(k) ==
    [i \in 1..k |-> [item_type |-> "telemetry", data |-> [cpu_usage |-> i],
                     timestamp |-> 0, attempt_count |-> 0]]

InitBuffer ==
    /\ now = 0
    /\ ServiceStarted
    /\ route_cache_ttl = [n \in Nodes |-> ROUTE_EXPIRY_SECONDS]
    /\ peers = [n \in Nodes |-> EmptyMap]
    /\ pending_pings = [n \in Nodes |-> EmptyMap]
    /\ controller_client = [n \in Nodes |-> [last_success |-> NoTime, health_check |-> "absent"]]
    /\ relay_cache = [n \in Nodes |-> {}]
    /\ network = {}
    /\ on_relay_complete = [n \in Nodes |-> FALSE]
    /\ message = NoMessage
    /\ sent_count = [id \in MsgIds |-> 0]
    /\ route_table = [n \in Nodes |-> EmptyMap]
    /\ pending_requests = [n \in Nodes |-> EmptyMap]
    /\ metrics = [n \in Nodes |-> InitMetrics]
    /\ \E max_items \in 0..MaxItemsBound :
          \/ buffer = NewLocalBuffer(max_items, DEFAULT_FLUSH_BATCH)
          \/ \E k \in 0..(MaxItemsBound + 1) :
                buffer = LoadedLocalBuffer(max_items, DEFAULT_FLUSH_BATCH, DiskImage(k))
    /\ last = [op |-> "init", loaded |-> buffer.items, added |-> <<>>]

NextBuffer ==
    \/ \E d \in TelemetryData, ok \in BOOLEAN :
          Len(Added) < MaxAdds /\ AddTelemetry(d, ok)
    \/ \E c \in CommandIds, r \in CommandResults, ok \in BOOLEAN :
          Len(Added) < MaxAdds /\ AddCommandResult(c, r, ok)
    \/ \E d \in TickSteps : now + d <= MaxTicks * d /\ TickBuffer(d)

SpecBuffer == InitBuffer /\ [][NextBuffer]_vars

----------------------------------------------------------------------------
(* SpecPersist: one LocalBuffer with a persist path under every mutating    *)
(* operation, each disk write succeeding or failing                        *)

FlushTypes == {None, "telemetry", "command_result"}

InitPersist ==
    /\ now = 0
    /\ ServiceStarted
    /\ route_cache_ttl = [n \in Nodes |-> ROUTE_EXPIRY_SECONDS]
    /\ peers = [n \in Nodes |-> EmptyMap]
    /\ pending_pings = [n \in Nodes |-> EmptyMap]
    /\ controller_client = [n \in Nodes |-> [last_success |-> NoTime, health_check |-> "absent"]]
    /\ relay_cache = [n \in Nodes |-> {}]
    /\ network = {}
    /\ on_relay_complete = [n \in Nodes |-> FALSE]
    /\ message = NoMessage
    /\ sent_count = [id \in MsgIds |-> 0]
    /\ route_table = [n \in Nodes |-> EmptyMap]
    /\ pending_requests = [n \in Nodes |-> EmptyMap]
    /\ metrics = [n \in Nodes |-> InitMetrics]
    /\ \E max_items \in {MaxItemsBound}, batch \in 1..MaxItemsBound, k \in 0..1 :
          buffer = LoadedLocalBuffer(max_items, batch, DiskImage(k))
    /\ last = [op |-> "init", loaded |-> buffer.items, added |-> <<>>]

NextPersist ==
    \/ \E d \in TelemetryData, ok \in BOOLEAN :
          Len(Added) < MaxPersistAdds /\ AddTelemetry(d, ok)
    \/ \E c \in CommandIds, r \in CommandResults, ok \in BOOLEAN :
          Len(Added) < MaxPersistAdds /\ AddCommandResult(c, r, ok)
    \/ \E t \in FlushTypes, ok \in BOOLEAN : MarkFlushed(t, ok)
    \/ \E t \in FlushTypes, ok \in BOOLEAN :
          /\ \A i \in 1..Len(buffer.items) : buffer.items[i].attempt_count < MaxAttempts
          /\ MarkFailed(t, ok)
    \/ \E ok \in BOOLEAN : Clear(ok)
    \/ \E d \in TickSteps : now + d <= MaxTicks * d /\ TickBuffer(d)

SpecPersist == InitPersist /\ [][NextPersist]_vars

----------------------------------------------------------------------------
(* SpecAck: one router relaying heartbeats and receiving RELAY_ACK frames *)

AckIds == MsgIds \cup {"m0"}      \* "m0": an id this router never relayed
AckResponses == {<<"n2", 0>>, <<"n3", 1>>}
AckRtts == {10}

InitAck == InitRouters({ROUTE_EXPIRY_SECONDS})

NextAck ==
    \/ \E r \in ReqIds : DiscoverRoutes(Self, r, CONTROLLER)
    \/ \E p \in AckResponses, r \in ReqIds, t \in AckRtts :
          /\ DiscoveredBelow(Self, Cardinality(Nodes))
          /\ HandleRouteResponse(Self, p[1], AddrOf(p[1]), r, CONTROLLER, p[2], t)
    \/ \E id \in MsgIds, f \in FailPatterns :
          /\ CountsBelow(Self, CONTROLLER, MaxCount)
          /\ SendHeartbeatViaMesh(Self, id, MaxHopsBound, f)
    \/ \E id \in AckIds, ok \in BOOLEAN : HandleRelayAck(Self, id, ok)
    \/ OnRelayComplete(Self)

SpecAck == InitAck /\ [][NextAck]_vars

----------------------------------------------------------------------------
(* SpecThreads: the agent loop, the listener thread and a status request   *)
(* running their operations on one router, step by step                    *)

RoutingThreads == {"agent", "listener", "status"}
ThreadResponders == {"n2", "n3"}
ClientKinds == {"absent", "true"}        \* the client has no health_check, or one that answers
ClientContacts == {NoTime, 0}            \* last_success: never, or just now

\* what the threads have completed: operations entered per thread, and
\* increments carried out per counter
NoneDone ==
    [op |-> "threads",
     started |-> [t \in Threads |-> 0],
     done |-> [c \in {"routes_discovered", "messages_relayed", "successful_deliveries",
                      "failed_relays", "success_count", "failure_count"} |-> 0]]

\* A router that discovered a route to the controller via n2 and still has
\* the request pending
InitThreads ==
    /\ now = 0
    /\ ServiceStarted
    /\ route_cache_ttl = [n \in Nodes |-> ROUTE_EXPIRY_SECONDS]
    /\ peers = [n \in Nodes |-> [p \in Nodes \ {n} |-> StaticPeer(p)]]
    /\ \E k \in ClientKinds, c \in ClientContacts :
          controller_client = [n \in Nodes |-> [last_success |-> c, health_check |-> k]]
    /\ relay_cache = [n \in Nodes |-> {}]
    /\ network = {}
    /\ on_relay_complete = [n \in Nodes |-> FALSE]
    /\ pending_pings = [n \in Nodes |-> EmptyMap]
    /\ message = NoMessage
    /\ sent_count = [id \in MsgIds |-> 0]
    /\ buffer = NewLocalBuffer(DEFAULT_MAX_ITEMS, DEFAULT_FLUSH_BATCH)
    /\ route_table = [n \in Nodes |->
          IF n = Self
          THEN (CONTROLLER :> <<NewRoutePath(CONTROLLER, "n2", AddrOf("n2"), NetHops + 1,
                                             NetRtt + DEFAULT_PEER_RTT, 0)>>)
          ELSE EmptyMap]
    /\ pending_requests = [n \in Nodes |-> IF n = Self THEN ("r1" :> 0) ELSE EmptyMap]
    /\ metrics = [n \in Nodes |->
          IF n = Self THEN [InitMetrics EXCEPT !.routes_discovered = 1] ELSE InitMetrics]
    /\ last = [NoneDone EXCEPT !.done["routes_discovered"] = 1]

NextThreads ==
    \/ \E t \in RoutingThreads : \E op \in OpsOf(t) :
          last.started[t] < MaxThreadOps /\ Begin(t, op)
    \/ \E t \in RoutingThreads : Acquire(t)
    \/ \E t \in RoutingThreads : Release(t)
    \/ \E t \in RoutingThreads : LoadCounter(t)
    \/ \E t \in RoutingThreads : StoreCounter(t)
    \/ \E t \in RoutingThreads : LoadRouteCount(t)
    \/ \E t \in RoutingThreads : StoreRouteCount(t)
    \/ \E t \in RoutingThreads : CacheStep(t)
    \/ \E t \in RoutingThreads, p \in ThreadResponders : UpdateRoute(t, p)
    \/ \E t \in RoutingThreads : LocalStep(t)

SpecThreads == InitThreads /\ [][NextThreads]_vars

----------------------------------------------------------------------------
(* SpecStop: a started MeshPeering with its two loops, the agent relaying   *)
(* heartbeats and calling stop().  FairSpecStop adds that the two threads   *)
(* keep being scheduled: recvfrom returns within its one-second timeout     *)
(* and time.sleep returns.                                                   *)

StopSenders == {None, "n2"}      \* None: recvfrom times out

\* after start(): both loops are at their loop test
InitStop ==
    /\ now = 0
    /\ running = TRUE
    /\ socket = "open"
    /\ lock = None
    /\ pc = [t \in Threads |->
                IF t = "listener" THEN [op |-> "listener_loop", i |-> 1]
                ELSE IF t = "heartbeat" THEN [op |-> "heartbeat_loop", i |-> 1]
                ELSE IdlePc]
    /\ reg = [t \in Threads |-> NoLocals]
    /\ route_cache_ttl = [n \in Nodes |-> ROUTE_EXPIRY_SECONDS]
    /\ peers = [n \in Nodes |-> [p \in Nodes \ {n} |-> StaticPeer(p)]]
    /\ controller_client = [n \in Nodes |-> [last_success |-> NoTime, health_check |-> "absent"]]
    /\ relay_cache = [n \in Nodes |-> {}]
    /\ network = {}
    /\ on_relay_complete = [n \in Nodes |-> FALSE]
    /\ pending_pings = [n \in Nodes |-> EmptyMap]
    /\ message = NoMessage
    /\ sent_count = [id \in MsgIds |-> 0]
    /\ buffer = NewLocalBuffer(DEFAULT_MAX_ITEMS, DEFAULT_FLUSH_BATCH)
    /\ route_table = [n \in Nodes |->
          IF n = Self
          THEN (CONTROLLER :> <<NewRoutePath(CONTROLLER, "n2", AddrOf("n2"), NetHops + 1,
                                             NetRtt + DEFAULT_PEER_RTT, 0)>>)
          ELSE EmptyMap]
    /\ pending_requests = [n \in Nodes |-> IF n = Self THEN ("r1" :> 0) ELSE EmptyMap]
    /\ metrics = [n \in Nodes |->
          IF n = Self THEN [InitMetrics EXCEPT !.routes_discovered = 1] ELSE InitMetrics]
    /\ last = Idle

ListenerStep == ListenerTest \/ \E sender \in StopSenders : ListenerReceive(sender)

HeartbeatLoopStep == HeartbeatTest \/ (\E ok \in BOOLEAN : HeartbeatFor(ok)) \/ HeartbeatSleep

NextStop ==
    \/ ListenerTest
    \/ \E sender \in StopSenders : ListenerReceive(sender)
    \/ HeartbeatTest
    \/ \E ok \in BOOLEAN : HeartbeatFor(ok)
    \/ HeartbeatSleep
    \/ StopFlag
    \/ StopClose
    \/ StopRelease
    \/ StopJoin
    \/ \E f \in FailPatterns :
          /\ CountsBelow(Self, CONTROLLER, MaxCount)
          /\ RelayAroundStop(f)

SpecStop == InitStop /\ [][NextStop]_vars

FairSpecStop == SpecStop /\ WF_vars(ListenerStep) /\ WF_vars(HeartbeatLoopStep)

----------------------------------------------------------------------------
(* Properties of relay_message (Spec) *)

\* the most recent operation was a call of relay_message by its caller
RelayCalled == last.op = "relay_message"

\* the attempts of the most recent relay_message whose sendto did not raise
OkSends == {i \in 1..Len(last.result.sends) : last.result.sends[i].ok}

\* the routes of the destination that were not expired when the call began
FreshBefore ==
    {i \in 1..Len(last.routes_before) :
        last.at - last.routes_before[i].last_updated <= ROUTE_EXPIRY_SECONDS}

\* C1: relay_message returns true exactly when one RELAY_DATA send succeeded
\* and false exactly when none did, and nothing is sent after the first
\* successful send.
C1_ReturnMatchesSends ==
    RelayCalled =>
        /\ last.result.ret <=> Cardinality(OkSends) = 1
        /\ ~last.result.ret <=> OkSends = {}
        /\ \A i \in OkSends : i = Len(last.result.sends)

\* a call that succeeded at its first attempt while a second route and a retry were left
C1_Witness ==
    /\ RelayCalled
    /\ last.result.ret
    /\ Len(last.result.sends) = 1
    /\ Cardinality(FreshBefore) >= 2
    /\ last.max_retries >= 1

\* C2: with hop_count >= max_hops relay_message returns false, adds one to
\* failed_relays, sends no datagram and does not cache the message, whatever
\* routes exist.
C2_TtlRefused ==
    (RelayCalled /\ last.before.hop_count >= last.before.max_hops) =>
        /\ ~last.result.ret
        /\ metrics[last.node].failed_relays = last.metrics_before.failed_relays + 1
        /\ metrics[last.node].messages_relayed = last.metrics_before.messages_relayed
        /\ last.result.sends = <<>>
        /\ relay_cache[last.node] = last.cache_before

\* a message at its hop limit is refused although a fresh route exists and
\* the cache is empty
C2_Witness ==
    /\ RelayCalled
    /\ last.before.hop_count >= last.before.max_hops
    /\ FreshBefore # {}
    /\ last.before.message_id \notin relay_cache[last.node]

\* C4: after relay_message returns true the caller's message has hop_count one
\* higher and path_trace extended by this router's node id.
C4_HopAndTrace ==
    (RelayCalled /\ last.result.ret) =>
        /\ message.hop_count = last.before.hop_count + 1
        /\ message.path_trace = Append(last.before.path_trace, last.node)
        /\ message.max_hops = last.before.max_hops
        /\ message.origin_node_id = last.before.origin_node_id

\* a message of another origin that had made one hop is relayed
C4_Witness ==
    /\ RelayCalled
    /\ last.result.ret
    /\ last.before.origin_node_id # last.node
    /\ last.before.hop_count >= 1
    /\ message.path_trace = Append(InboundTrace(last.before.hop_count), Self)

\* C5: a message created with hop_count <= max_hops and changed only by
\* relay_message and handle_incoming_relay keeps hop_count <= max_hops; the
\* failure branch after increment_hop is never taken.
C5_HopBound ==
    /\ message # NoMessage => message.hop_count <= message.max_hops
    /\ last.op \in {"relay_message", "handle_incoming_relay"} =>
          /\ last.result.message.hop_count <= last.result.message.max_hops
          /\ last.result.branch # "ttl_after_increment"
    /\ \A d \in network :
          d.type = MSG_RELAY_DATA => d.body.hop_count <= d.body.max_hops

\* an inbound message one hop below its limit is relayed on and reaches the limit
C5_Witness ==
    /\ last.op = "handle_incoming_relay"
    /\ last.result.branch = "sent"
    /\ last.before.hop_count + 1 = last.before.max_hops
    /\ last.result.message.hop_count = last.result.message.max_hops

----------------------------------------------------------------------------
(* Properties of route selection (SpecSelect, SpecExpiry) *)

SelectCalled == last.op = "select_best_route"

\* the routes of the queried destination whose age is within the configured TTL
WithinTtl ==
    LET routes == RoutesTo(last.node, last.destination) IN
    {i \in 1..Len(routes) : now - routes[i].last_updated <= route_cache_ttl[last.node]}

\* a comes strictly before b: fewer hops, then lower RTT, then higher reliability
Precedes(a, b) ==
    \/ a.total_hops < b.total_hops
    \/ a.total_hops = b.total_hops /\ a.estimated_rtt_ms < b.estimated_rtt_ms
    \/ /\ a.total_hops = b.total_hops
       /\ a.estimated_rtt_ms = b.estimated_rtt_ms
       /\ a.reliability.num * b.reliability.den > b.reliability.num * a.reliability.den

\* C6: under every configured route_cache_ttl a route older than the TTL is
\* never returned by select_best_route, counted by has_route_to or used by
\* relay_message, and a route of age <= TTL is not treated as expired.
C6_ConfiguredTtlHonoured ==
    /\ (SelectCalled /\ last.result # NoRoute) =>
          now - last.result.last_updated <= route_cache_ttl[last.node]
    /\ (SelectCalled /\ last.result = NoRoute) => WithinTtl = {}
    /\ last.op = "has_route_to" => (last.result <=> WithinTtl # {})
    /\ RelayCalled =>
          \A i \in 1..Len(last.result.sends) :
              last.at - last.routes_before[last.result.sends[i].route].last_updated
                  <= route_cache_ttl[last.node]

\* C7: select_best_route returns a route that no non-expired route precedes
\* under (hops ascending, RTT ascending, reliability descending), and None
\* exactly when the destination has no non-expired route.
C7_BestRoute ==
    SelectCalled =>
        LET routes == RoutesTo(last.node, last.destination) IN
        /\ last.result = NoRoute <=> WithinTtl = {}
        /\ last.result # NoRoute =>
              \E i \in WithinTtl :
                  /\ routes[i] = last.result
                  /\ \A j \in WithinTtl : ~Precedes(routes[j], routes[i])

\* two fresh routes tie on hops and RTT; the later one in the table is more
\* reliable and is the one returned
C7_Witness ==
    /\ SelectCalled
    /\ Len(RoutesTo(last.node, last.destination)) = 2
    /\ WithinTtl = {1, 2}
    /\ LET routes == RoutesTo(last.node, last.destination) IN
          /\ routes[1].total_hops = routes[2].total_hops
          /\ routes[1].estimated_rtt_ms = routes[2].estimated_rtt_ms
          /\ Precedes(routes[2], routes[1])
          /\ last.result = routes[2]

----------------------------------------------------------------------------
(* Properties of the circuit breaker (SpecBreaker) *)

\* the circuit-breaker condition: at least three failures and reliability below 0.2
Broken(r) == r.failure_count >= BREAKER_FAILURES /\ 5 * r.reliability.num < r.reliability.den

\* the routes that relay_message sent (or tried to send) on, in order
Attempted == [i \in 1..Len(last.result.sends) |-> last.result.sends[i].route]

AttemptedSet == {Attempted[i] : i \in 1..Len(Attempted)}

C9_ViableAfterSuccessIfRatio ==
    RelayCalled =>
        \A i \in OkSends :
            LET k == Attempted[i]
                before == last.routes_before[k]
                after == last.result.routes[k]
            IN Broken(before) =>
                  /\ after.success_count = before.success_count + 1
                  /\ ~Broken(after) <=>
                        before.failure_count <= 4 * (before.success_count + 1)

\* a route with three failures and no success carries a send and is viable again
C9_Witness ==
    /\ RelayCalled
    /\ \E i \in OkSends :
          /\ Broken(last.routes_before[Attempted[i]])
          /\ last.routes_before[Attempted[i]].failure_count = BREAKER_FAILURES
          /\ ~Broken(last.result.routes[Attempted[i]])

\* C9 (as stated): a broken route is viable again right after its next
\* recorded success, whatever its failure count.
C9_ViableAfterAnySuccess ==
    RelayCalled =>
        \A i \in OkSends :
            Broken(last.routes_before[Attempted[i]]) =>
                ~Broken(last.result.routes[Attempted[i]])

\* C10: when every non-expired route is broken, relay_message still attempts
\* them in sorted order and returns true if a send succeeds.
C10_DegradedStillTried ==
    (RelayCalled /\ FreshBefore # {}
        /\ last.before.hop_count < last.before.max_hops
        /\ \A j \in FreshBefore : Broken(last.routes_before[j])) =>
        /\ Attempted # <<>>
        /\ AttemptedSet \subseteq FreshBefore
        /\ \A j \in FreshBefore : ~Precedes(last.routes_before[j], last.routes_before[Attempted[1]])
        /\ \A i \in 1..(Len(Attempted) - 1) :
              ~Precedes(last.routes_before[Attempted[i + 1]], last.routes_before[Attempted[i]])
        /\ last.result.ret <=> OkSends # {}
        /\ (~last.result.ret) =>
              \/ AttemptedSet = FreshBefore
              \/ Len(Attempted) = last.max_retries + 1

\* both routes are broken; the first send fails, the second succeeds
C10_Witness ==
    /\ RelayCalled
    /\ FreshBefore = {1, 2}
    /\ \A j \in FreshBefore : Broken(last.routes_before[j])
    /\ Len(Attempted) = 2
    /\ last.result.ret

----------------------------------------------------------------------------
(* Properties of the network of routers (SpecNet) *)

\* C3: whatever the route tables, cyclic ones included, a message created with
\* hop_count 0 and max_hops H is transmitted at most H times, so it cannot
\* circulate for ever; every copy in flight has made at most H hops.
C3_BoundedTransmissions ==
    /\ \A id \in MsgIds : sent_count[id] <= MaxHopsBound
    /\ \A d \in network :
          d.type = MSG_RELAY_DATA =>
              /\ d.body.max_hops = MaxHopsBound
              /\ d.body.hop_count <= d.body.max_hops
              /\ d.body.hop_count = sent_count[d.body.message_id]

\* a message went round a cycle: it was transmitted max_hops times and the
\* router that originated it relayed it again
C3_Witness ==
    \E id \in MsgIds :
        /\ sent_count[id] = MaxHopsBound
        /\ \E d \in network :
              /\ d.type = MSG_RELAY_DATA
              /\ d.body.message_id = id
              /\ d.body.path_trace[1] = d.body.path_trace[3]

----------------------------------------------------------------------------
(* Properties of the inflight cache (SpecAck) *)

AckHandled == last.op = "handle_relay_ack"

\* C11: a successful relay_message leaves the message id in the inflight
\* cache; handle_relay_ack removes the id whether the ack reports success or
\* failure; an ack for an id that is not cached changes no state and calls no
\* callback.
C11_CacheAndAck ==
    /\ [](/\ (RelayCalled /\ last.result.ret) =>
                last.before.message_id \in relay_cache[last.node]
          /\ AckHandled => last.message_id \notin relay_cache[last.node]
          /\ (AckHandled /\ last.message_id \in last.cache_before) =>
                /\ relay_cache[last.node] = last.cache_before \ {last.message_id}
                /\ on_relay_complete[last.node] =>
                      last.callbacks = <<<<last.message_id, last.success>>>>
          /\ (AckHandled /\ last.message_id \notin last.cache_before) =>
                last.callbacks = <<>>)
    /\ [][(last'.op = "handle_relay_ack" /\ last'.message_id \notin relay_cache[last'.node]) =>
             UNCHANGED <<threadVars, now, route_cache_ttl, peers, controller_client, route_table,
                         pending_requests, relay_cache, metrics, network, message,
                         on_relay_complete, pending_pings, buffer, sent_count>>]_vars

\* a failure ack for a cached message removes it and reaches the callback
C11_Witness ==
    /\ AckHandled
    /\ last.message_id \in last.cache_before
    /\ ~last.success
    /\ last.callbacks = <<<<last.message_id, FALSE>>>>
    /\ relay_cache[last.node] = {}

----------------------------------------------------------------------------
(* Properties of inbound relay handling (SpecNet, SpecInbound) *)

InboundHandled == last.op = "handle_incoming_relay"

Terminated == InboundHandled /\ last.result.branch \in {"for_self", "to_controller"}

\* C12: a node that terminates an inbound RELAY_DATA (addressed to itself, or
\* to "controller" and forwarded to the Controller Client) emits a RELAY_ACK
\* datagram carrying the message id, which lets the previous hop drop its
\* inflight-cache entry.
C12_AckEmitted ==
    Terminated =>
        \E d \in network : /\ d.type = MSG_RELAY_ACK
                           /\ d.body.message_id = last.before.message_id

ToController == InboundHandled /\ last.result.branch = "to_controller"

\* the Controller Client took the message: it was called and did not refuse
ControllerAccepted == last.result.controller_calls # <<>> /\ last.outcome = "accepted"

\* C13: when terminal forwarding of a controller-destined message fails at the
\* Controller Client (heartbeat returns None, report_command_result returns
\* False, or the call raises) the ack's success outcome is false and
\* successful_deliveries is not incremented; the outcome is true only when
\* the controller accepted the message.
C13_FailureAckedFalse ==
    ToController =>
        /\ last.result.ack_calls = <<AckCall(last.before, ControllerAccepted)>>
        /\ metrics[last.node].successful_deliveries =
              last.metrics_before.successful_deliveries
                 + (IF ControllerAccepted THEN 1 ELSE 0)

\* an inbound message for "controller" handled while the direct link is usable
AtGateway == InboundHandled /\ last.before.destination = CONTROLLER /\ last.direct

\* nothing was sent to a peer and the relay state is as before
NotReforwarded ==
    /\ last.result.sends = <<>>
    /\ last.result.message = last.before
    /\ relay_cache[last.node] = last.cache_before
    /\ metrics[last.node].messages_relayed = last.metrics_before.messages_relayed
    /\ metrics[last.node].failed_relays = last.metrics_before.failed_relays

\* C14 as stated: every inbound message for "controller" at a node with a
\* usable direct link is handed to the Controller Client and not re-forwarded.
C14_HandedToController ==
    AtGateway => last.result.controller_calls # <<>> /\ NotReforwarded

\* C14: an inbound heartbeat or command_result for "controller" at a node
\* with a usable direct link is handed to the Controller Client (a heartbeat
\* under the message's origin_node_id); a message of another type is not
\* handed over; in every case it is not re-forwarded to any peer, whatever
\* the controller call does.
C14_TerminatedAtGateway ==
    AtGateway =>
        /\ NotReforwarded
        /\ last.before.msg_type = "heartbeat" =>
              last.result.controller_calls =
                 <<[method |-> "heartbeat", node_id |-> last.before.origin_node_id]>>
        /\ last.before.msg_type = "command_result" =>
              /\ Len(last.result.controller_calls) = 1
              /\ last.result.controller_calls[1].method = "report_command_result"
        /\ last.before.msg_type \notin {"heartbeat", "command_result"} =>
              last.result.controller_calls = <<>>

\* a heartbeat whose controller call raises, at a gateway that holds a route
\* it could have re-forwarded on
C14_Witness ==
    /\ AtGateway
    /\ last.before.msg_type = "heartbeat"
    /\ last.outcome = "raises"
    /\ last.routes_before # <<>>
    /\ last.result.controller_calls # <<>>
    /\ last.result.sends = <<>>

----------------------------------------------------------------------------
(* Properties of route discovery (SpecDiscovery) *)

ResponseHandled == last.op = "handle_route_response"

\* C15: a ROUTE_RESPONSE whose request_id is not in pending_requests is
\* ignored: the route table, routes_discovered and pending_requests are
\* unchanged and no error propagates to the caller.
C15_UnknownRequestIgnored ==
    (ResponseHandled /\ last.request_id \notin DOMAIN last.pending_before) =>
        /\ route_table[last.node] = last.table_before
        /\ metrics[last.node] = last.metrics_before
        /\ pending_requests[last.node] = last.pending_before
        /\ ~last.result.raised

\* a response with an unknown id from a peer, while another request is pending
C15_Witness ==
    /\ ResponseHandled
    /\ last.request_id \notin DOMAIN last.pending_before
    /\ last.pending_before # EmptyMap
    /\ last.sender_id \in DOMAIN peers[last.node]
    /\ RoutesTo(last.node, last.destination) = <<>>

\* the age of the request a handled response answers
RequestAge == last.at - last.pending_before[last.request_id]

\* C16: pending_requests entries older than the sweep age (10 s) are removed,
\* so a ROUTE_RESPONSE that arrives for a request older than that is ignored:
\* it neither inserts nor refreshes a route.
C16_StaleRequestIgnored ==
    (ResponseHandled /\ last.request_id \in DOMAIN last.pending_before /\ RequestAge > 10) =>
        route_table[last.node] = last.table_before

\* the route the response announces is in the table afterwards
RouteStored ==
    \E i \in 1..Len(RoutesTo(last.node, last.destination)) :
        LET r == RoutesTo(last.node, last.destination)[i] IN
        /\ r.next_hop = last.sender_id
        /\ r.next_hop_addr = last.sender_addr
        /\ r.total_hops = last.hops + 1

\* C17: after a ROUTE_RESPONSE(sender, request_id, dest, hops) whose request_id
\* is pending, from any sender, in the peer table or not, the route table
\* holds a route to dest with next_hop = sender, next_hop_addr = the sender's
\* address and total_hops = hops + 1.
C17_RouteStored ==
    (ResponseHandled /\ last.request_id \in DOMAIN last.pending_before) => RouteStored

----------------------------------------------------------------------------
(* Properties of the peer table (SpecPeering) *)

Reachable(p) == p \in DOMAIN peers[Self] /\ peers[Self][p].status = "reachable"

PeerAge(p) == now - peers[Self][p].last_seen

\* C18 as stated: in every state every REACHABLE peer has last_seen set and
\* now - last_seen <= peer_timeout.
C18_ReachableIsFresh ==
    \A p \in PeerIds :
        Reachable(p) => peers[Self][p].last_seen # NoTime /\ PeerAge(p) <= PEER_TIMEOUT

SweepDone == last.op = "check_peer_timeout"

\* C18: every REACHABLE peer has last_seen set, and right after the heartbeat
\* loop's timeout check of a peer that peer is REACHABLE only if
\* now - last_seen <= peer_timeout.
C18_ReachableFreshAfterSweep ==
    /\ \A p \in PeerIds :
          Reachable(p) => peers[Self][p].last_seen # NoTime /\ PeerAge(p) >= 0
    /\ (SweepDone /\ Reachable(last.peer)) => PeerAge(last.peer) <= PEER_TIMEOUT

\* the check has just moved a peer that was REACHABLE for longer than
\* peer_timeout to UNREACHABLE, while another peer stays REACHABLE
C18_Witness ==
    /\ SweepDone
    /\ last.peers_before[last.peer].status = "reachable"
    /\ peers[Self][last.peer].status = "unreachable"
    /\ PeerAge(last.peer) > PEER_TIMEOUT
    /\ \E q \in PeerIds \ {last.peer} : Reachable(q)

StatusOf(table, p) == IF p \in DOMAIN table THEN table[p].status ELSE "absent"

StatusStepOk(old, new) ==
    \/ new = old
    \/ new = "reachable"
    \/ old = "reachable" /\ new = "unreachable"
    \/ old \in {"absent", "unknown"} /\ new = "discovered"

\* C19: peer status changes only along absent/UNKNOWN -> DISCOVERED (static
\* add), any -> REACHABLE (sighting) and REACHABLE -> UNREACHABLE (timeout
\* check); a peer that is not REACHABLE is never moved to UNREACHABLE, a
\* REACHABLE peer is never moved back to DISCOVERED or UNKNOWN, and no peer
\* is ever removed from the peer table.
C19_StatusLifecycle ==
    [][\A p \in PeerIds :
          /\ StatusStepOk(StatusOf(peers[Self], p), StatusOf(peers'[Self], p))
          /\ p \in DOMAIN peers[Self] => p \in DOMAIN peers'[Self]]_vars

----------------------------------------------------------------------------
(* Properties of the local buffer (SpecBuffer) *)

\* the last k elements of sequence q (all of q when it is shorter)
LastOf(q, k) == IF Len(q) <= k THEN q ELSE SubSeq(q, Len(q) - k + 1, Len(q))

\* everything the buffer was ever given: what it loaded, then what was added
Given == last.loaded \o Added

\* C20: after any sequence of add operations on a LocalBuffer with
\* max_items = N the size is at most N and the buffer holds exactly the most
\* recently added min(n, N) items in insertion order.
C20_BoundedFifo ==
    last.op = "add" =>
        /\ Len(buffer.items) <= buffer.max_items
        /\ buffer.items = LastOf(Given, buffer.max_items)
        /\ last.loaded = <<>> =>
              /\ Len(buffer.items) = IF Len(Added) <= buffer.max_items
                                     THEN Len(Added) ELSE buffer.max_items
              /\ buffer.items = LastOf(Added, buffer.max_items)

\* N + 2 adds on a fresh buffer with N = 2: the two oldest are gone
C20_Witness ==
    /\ last.op = "add"
    /\ last.loaded = <<>>
    /\ buffer.max_items = MaxItemsBound
    /\ Len(Added) = buffer.max_items + 2
    /\ Len(buffer.items) = buffer.max_items
    /\ buffer.items[1] = Added[3]
    /\ Added[1] # Added[3]

----------------------------------------------------------------------------
(* Properties of buffer persistence (SpecPersist) *)

Mutated == last.op \in {"add", "mark_flushed", "mark_failed", "clear"}

\* the in-memory items as json.load and from_dict would give them back
DiskEqualsMemory ==
    /\ Len(buffer.disk) = Len(buffer.items)
    /\ \A i \in 1..Len(buffer.items) :
          /\ buffer.disk[i].item_type = buffer.items[i].item_type
          /\ buffer.disk[i].data = buffer.items[i].data
          /\ buffer.disk[i].timestamp = buffer.items[i].timestamp
          /\ buffer.disk[i].attempt_count = buffer.items[i].attempt_count

\* what the operation leaves in memory, stated without its disk write
MemoryAsExpected ==
    CASE last.op = "add" ->
            /\ buffer.items # <<>> => buffer.items[Len(buffer.items)] = Added[Len(Added)]
            /\ Len(buffer.items) =
                  IF Len(last.items_before) + 1 > buffer.max_items
                  THEN buffer.max_items ELSE Len(last.items_before) + 1
      [] last.op = "clear" -> buffer.items = <<>>
      [] last.op = "mark_flushed" ->
            /\ \A i \in 1..Len(buffer.items) : ItemKey(buffer.items[i]) \notin KeysOf(last.batch)
            /\ Len(buffer.items) =
                  Cardinality({i \in 1..Len(last.items_before) :
                                  ItemKey(last.items_before[i]) \notin KeysOf(last.batch)})
      [] last.op = "mark_failed" ->
            /\ Len(buffer.items) = Len(last.items_before)
            /\ \A i \in 1..Len(buffer.items) :
                  buffer.items[i].attempt_count =
                     last.items_before[i].attempt_count
                        + (IF ItemKey(last.items_before[i]) \in KeysOf(last.batch) THEN 1 ELSE 0)
      [] OTHER -> TRUE

\* C21: with a persist path configured, after every mutating buffer operation
\* (add, mark_flushed, mark_failed, clear) whose disk write succeeds the
\* on-disk item list equals the in-memory item list; a failed write does not
\* change the in-memory items (nor the file), and the next successful write
\* makes the disk image equal to memory again.
C21_DiskFollowsMemory ==
    (Mutated /\ buffer.persist_path) =>
        /\ MemoryAsExpected
        /\ last.write_ok => DiskEqualsMemory
        /\ ~last.write_ok => buffer.disk = last.disk_before

\* a write succeeds after a failed one had left the file behind memory
C21_Witness ==
    /\ Mutated
    /\ last.write_ok
    /\ last.op = "mark_failed"
    /\ last.batch # <<>>
    /\ Len(last.disk_before) # Len(last.items_before)
    /\ DiskEqualsMemory
    /\ buffer.items # <<>>

----------------------------------------------------------------------------
(* Properties of route reliability (SpecBreaker) *)

\* the ratio invariant of one route
RatioHolds(r) ==
    LET total == r.success_count + r.failure_count IN
    IF total > 0
    THEN r.reliability.num * total = r.success_count * r.reliability.den
    ELSE r.reliability.num = r.reliability.den

\* route q is route r one operation later
SameRoute(r, q) == r.target = q.target /\ r.next_hop = q.next_hop

\* C25: for every route created by handle_route_response and changed only by
\* record_success / record_failure, reliability equals
\* success_count / (success_count + failure_count) when that sum is positive
\* and 1.0 otherwise; record_success never lowers reliability and
\* record_failure never raises it.
C25_ReliabilityIsRatio ==
    /\ [](\A d \in DOMAIN route_table[Self] :
             \A i \in 1..Len(route_table[Self][d]) : RatioHolds(route_table[Self][d][i]))
    /\ [][\A d \in DOMAIN route_table[Self] \cap DOMAIN route_table'[Self] :
             \A i \in 1..Len(route_table[Self][d]), j \in 1..Len(route_table'[Self][d]) :
                LET r == route_table[Self][d][i]
                    q == route_table'[Self][d][j]
                IN SameRoute(r, q) =>
                      /\ (q.success_count > r.success_count /\ q.failure_count = r.failure_count)
                            => ~RelGreater(r.reliability, q.reliability)
                      /\ (q.failure_count > r.failure_count /\ q.success_count = r.success_count)
                            => ~RelGreater(q.reliability, r.reliability)]_vars

\* a route with successes and failures whose last relay failed
C25_Witness ==
    /\ RelayCalled
    /\ \E i \in 1..Len(RoutesTo(Self, CONTROLLER)) :
          LET r == RoutesTo(Self, CONTROLLER)[i] IN
          /\ r.success_count = 1
          /\ r.failure_count = 2
          /\ r.streak > 0
          /\ r.reliability.num * 3 = r.reliability.den

----------------------------------------------------------------------------
(* Properties of the path trace across the network (SpecNet) *)

RelayData(d) == d.type = MSG_RELAY_DATA

\* datagram d is what its sender made of datagram e that it had received
Continues(d, e) ==
    /\ RelayData(e)
    /\ e.dst = AddrOf(d.src)
    /\ e.body.message_id = d.body.message_id
    /\ e.body.origin_node_id = d.body.origin_node_id
    /\ d.body.path_trace = Append(e.body.path_trace, d.src)

\* C26: every RELAY_DATA datagram sent for a message created by the agent loop
\* has path_trace[0] equal to the message's origin_node_id, and its
\* path_trace lists, in order, exactly the nodes that have relayed it: the
\* origin alone on the first hop, and on every later hop the trace of the
\* datagram received followed by the node that sends it on.
C26_TraceIsRelayPath ==
    /\ [](\A d \in network : RelayData(d) =>
             /\ d.body.path_trace # <<>>
             /\ d.body.path_trace[1] = d.body.origin_node_id
             /\ d.body.path_trace[Len(d.body.path_trace)] = d.src
             /\ Len(d.body.path_trace) = d.body.hop_count)
    /\ [][\A d \in network' \ network : RelayData(d) =>
             \/ d.body.path_trace = <<d.src>> /\ d.src = d.body.origin_node_id
             \/ \E e \in network : Continues(d, e)]_vars

\* a datagram on its third hop, relayed by three different nodes
C26_Witness ==
    \E d \in network :
        /\ RelayData(d)
        /\ Len(d.body.path_trace) = 3
        /\ Cardinality({d.body.path_trace[i] : i \in 1..3}) = 3

----------------------------------------------------------------------------
(* C27: handle_route_request *)

RequestHandled == last.op = "handle_route_request"

\* the routes to the controller that had not expired when the request came
LiveRoutes ==
    IF CONTROLLER \in DOMAIN last.table_before
    THEN {i \in 1..Len(last.table_before[CONTROLLER]) :
             last.at - last.table_before[CONTROLLER][i].last_updated <= ROUTE_EXPIRY_SECONDS}
    ELSE {}

\* the hop counts the request may be answered with: none, or one
AnswerHops ==
    IF last.destination = CONTROLLER
    THEN IF last.direct THEN {0}
         ELSE {last.table_before[CONTROLLER][i].total_hops + 1 : i \in
                  {j \in LiveRoutes : \A k \in LiveRoutes :
                      last.table_before[CONTROLLER][j].total_hops
                          <= last.table_before[CONTROLLER][k].total_hops}}
    ELSE IF last.destination = last.node THEN {0}
    ELSE IF /\ last.destination \in DOMAIN last.peers_before
            /\ last.peers_before[last.destination].status = "reachable"
    THEN {1}
    ELSE {}

\* C27: a route request is answered with one ROUTE_RESPONSE to the requester
\* exactly when the destination is the controller and the direct link is
\* usable (hops 0), or it is the controller and a non-expired route exists
\* (hops of the best route + 1), or it is the node itself (hops 0), or it is
\* a reachable peer (hops 1); in every other case nothing is sent.
C27_RouteRequestAnswer ==
    RequestHandled =>
        /\ \A d \in last.result.sent :
              /\ d.type = MSG_ROUTE_RESPONSE
              /\ d.dst = last.sender_addr
              /\ d.body.request_id = last.request_id
              /\ d.body.destination = last.destination
              /\ d.body.hops \in AnswerHops
        /\ Cardinality(last.result.sent) = IF AnswerHops # {} /\ last.send_ok THEN 1 ELSE 0
        /\ Cardinality(AnswerHops) <= 1
        /\ network = last.network_before \cup last.result.sent

\* a request for the controller is answered from a two-hop mesh route
C27_Witness ==
    /\ RequestHandled
    /\ last.destination = CONTROLLER
    /\ ~last.direct
    /\ \E d \in last.result.sent : d.body.hops = 2 /\ d \in network

----------------------------------------------------------------------------
(* C28: what an accepted ROUTE_RESPONSE changes *)

\* the routes to the announced destination before and after the response
RoutesBefore ==
    IF last.destination \in DOMAIN last.table_before
    THEN last.table_before[last.destination] ELSE <<>>

RoutesAfter == RoutesTo(last.node, last.destination)

ViaSender == {i \in 1..Len(RoutesBefore) : RoutesBefore[i].next_hop = last.sender_id}

OtherDestinationsKept ==
    \A d \in (DOMAIN last.table_before \cup DOMAIN route_table[last.node]) \ {last.destination} :
        /\ d \in DOMAIN last.table_before
        /\ d \in DOMAIN route_table[last.node]
        /\ route_table[last.node][d] = last.table_before[d]

\* the route via the sender is refreshed where it stands, nothing else moves
UpdatedInPlace ==
    /\ Len(RoutesAfter) = Len(RoutesBefore)
    /\ \E i \in ViaSender :
          /\ RoutesAfter[i].total_hops = last.hops + 1
          /\ RoutesAfter[i].last_updated = last.at
          /\ [RoutesAfter[i] EXCEPT !.total_hops = 0, !.estimated_rtt_ms = 0,
                                    !.last_updated = 0]
                = [RoutesBefore[i] EXCEPT !.total_hops = 0, !.estimated_rtt_ms = 0,
                                          !.last_updated = 0]
          /\ \A j \in 1..Len(RoutesBefore) : j # i => RoutesAfter[j] = RoutesBefore[j]
    /\ metrics[last.node] = last.metrics_before

\* one route via the sender is added at the end and counted
AppendedOne ==
    /\ Len(RoutesAfter) = Len(RoutesBefore) + 1
    /\ SubSeq(RoutesAfter, 1, Len(RoutesBefore)) = RoutesBefore
    /\ RoutesAfter[Len(RoutesAfter)].next_hop = last.sender_id
    /\ RoutesAfter[Len(RoutesAfter)].total_hops = last.hops + 1
    /\ metrics[last.node] =
          [last.metrics_before EXCEPT !.routes_discovered = @ + 1]

\* C28: a response to a pending request for a destination that already has a
\* route via the sender overwrites only total_hops, estimated_rtt_ms and
\* last_updated of that route, leaving its counters, its position, every
\* other route and routes_discovered as they were; any other response to a
\* pending request appends one route and adds 1 to routes_discovered.
C28_UpdateOrAppend ==
    (ResponseHandled /\ last.request_id \in DOMAIN last.pending_before) =>
        /\ OtherDestinationsKept
        /\ IF ViaSender # {} THEN UpdatedInPlace ELSE AppendedOne

----------------------------------------------------------------------------
(* C29: the send loop of one relay_message call *)

\* the routes the loop may walk: the fresh routes that pass the circuit
\* breaker, or every fresh route when none passes
Candidates ==
    LET ok == {i \in FreshBefore : is_viable(last.routes_before[i])} IN
    IF ok # {} THEN ok ELSE FreshBefore

\* the routes the call attempted, in order
Tried == [i \in 1..Len(last.result.sends) |-> last.result.sends[i].route]

\* attempts of the call on route k whose send had the outcome ok
AttemptsOn(k, ok) ==
    {i \in 1..Len(last.result.sends) :
        last.result.sends[i].route = k /\ last.result.sends[i].ok = ok}

\* the call got as far as the send loop
LoopEntered ==
    RelayCalled /\ last.before.hop_count < last.before.max_hops /\ FreshBefore # {}

\* C29: one relay_message call walks the viable routes in sorted order, makes
\* at most max_retries + 1 attempts, never tries a next_hop twice, records one
\* failure on each route whose send failed and one success on the route whose
\* send succeeded; when every attempt failed it removes the message id from
\* the cache, adds 1 to failed_relays and returns false.
C29_SendLoop ==
    LoopEntered =>
        /\ Len(Tried) <= last.max_retries + 1
        /\ \A i \in 1..Len(Tried) : Tried[i] \in Candidates
        /\ \A i, j \in 1..Len(Tried) :
              i < j => /\ ~KeyLess(last.routes_before[Tried[j]], last.routes_before[Tried[i]])
                       /\ last.routes_before[Tried[i]].next_hop
                             # last.routes_before[Tried[j]].next_hop
        /\ \A i \in 1..Len(Tried) : \A c \in Candidates :
              KeyLess(last.routes_before[c], last.routes_before[Tried[i]])
                 => \E j \in 1..Len(Tried) : j < i /\ Tried[j] = c
        /\ Len(last.result.routes) = Len(last.routes_before)
        /\ \A k \in 1..Len(last.routes_before) :
              /\ last.result.routes[k].failure_count
                    = last.routes_before[k].failure_count + Cardinality(AttemptsOn(k, FALSE))
              /\ last.result.routes[k].success_count
                    = last.routes_before[k].success_count + Cardinality(AttemptsOn(k, TRUE))
              /\ Cardinality(AttemptsOn(k, FALSE)) + Cardinality(AttemptsOn(k, TRUE)) <= 1
        /\ OkSends = {} =>
              /\ ~last.result.ret
              /\ last.before.message_id \notin relay_cache[last.node]
              /\ metrics[last.node] =
                    [last.metrics_before EXCEPT !.failed_relays = @ + 1]
              /\ Len(Tried) = last.max_retries + 1 \/ Len(Tried) = Cardinality(Candidates)

\* a call with one retry whose two attempts, on two routes, both failed
C29_Witness ==
    /\ LoopEntered
    /\ last.max_retries = 1
    /\ Len(Tried) = 2
    /\ OkSends = {}
    /\ Cardinality(Candidates) >= 2
    /\ last.before.message_id \in last.cache_before

----------------------------------------------------------------------------
(* C30: the order of the cases of handle_incoming_relay *)

\* the call changed nothing the router keeps and requested no controller call
RouterUntouched ==
    /\ route_table[last.node] = last.table_before
    /\ relay_cache[last.node] = last.cache_before
    /\ metrics[last.node] = last.metrics_before

\* the message was handled by this node: acknowledged, nothing else
HandledLocally ==
    /\ NotReforwarded
    /\ RouterUntouched
    /\ last.result.controller_calls = <<>>
    /\ last.result.ack_calls = <<AckCall(last.before, TRUE)>>

\* relay_message ran once for the message: it counted either a relayed
\* message or a failed relay
Reforwarded ==
    /\ last.result.controller_calls = <<>>
    /\ metrics[last.node].messages_relayed + metrics[last.node].failed_relays
          = last.metrics_before.messages_relayed + last.metrics_before.failed_relays + 1
    /\ last.result.sends # <<>> \/ last.routes_before = <<>>
          \/ \A i \in 1..Len(last.routes_before) :
                last.at - last.routes_before[i].last_updated > ROUTE_EXPIRY_SECONDS

Dropped ==
    /\ NotReforwarded
    /\ RouterUntouched
    /\ last.result.controller_calls = <<>>
    /\ last.result.ack_calls = <<>>

MalformedIgnored ==
    last.op = "malformed_relay" =>
        /\ RouterUntouched
        /\ network = last.network_before

\* C30 as stated: the message is handled locally when it is for this node;
\* else forwarded to the Controller Client when it is for "controller" and
\* the direct link is usable; else re-forwarded with relay_message when
\* hop_count < max_hops; else dropped without a datagram.  A frame that does
\* not parse changes nothing and sends nothing.
C30_CasesInOrder ==
    /\ MalformedIgnored
    /\ InboundHandled =>
          IF last.before.destination = last.node THEN HandledLocally
          ELSE IF last.before.destination = CONTROLLER /\ last.direct
          THEN NotReforwarded /\ last.result.controller_calls # <<>>
          ELSE IF last.before.hop_count < last.before.max_hops THEN Reforwarded
          ELSE Dropped

\* C30: the same order of cases, where a message for "controller" at a node
\* with a usable direct link is forwarded to the Controller Client if it is
\* a heartbeat or a command_result and is consumed without a controller
\* call if it is of another type; in neither case is it re-forwarded.
C30_CasesInOrderByType ==
    /\ MalformedIgnored
    /\ InboundHandled =>
          IF last.before.destination = last.node THEN HandledLocally
          ELSE IF last.before.destination = CONTROLLER /\ last.direct
          THEN /\ NotReforwarded
               /\ last.result.controller_calls # <<>>
                     <=> last.before.msg_type \in {"heartbeat", "command_result"}
          ELSE IF last.before.hop_count < last.before.max_hops THEN Reforwarded
          ELSE Dropped

\* a message for a third node that arrives at its hop limit is dropped
C30_Witness ==
    /\ InboundHandled
    /\ last.before.destination = "n9"
    /\ last.before.hop_count = last.before.max_hops
    /\ last.result.sends = <<>>
    /\ metrics[last.node] = last.metrics_before

----------------------------------------------------------------------------
(* C22, C23: the routing lock (SpecThreads) *)

\* C22: no thread calls into the Controller Client (heartbeat,
\* report_command_result, health_check) while it holds the routing lock, in
\* any public operation of the router, get_routing_status included.
C22_NoClientCallUnderLock ==
    \A t \in Threads : CallsClient(t) => lock # t

\* the next step of t reads or writes a metrics counter or a route counter
UpdatesCounter(t) ==
    NextInstr(t).k \in {"load", "store", "route_load", "route_store"}

\* every increment carried out is in the counter
NoUpdateLost ==
    /\ \A c \in {"routes_discovered", "messages_relayed", "successful_deliveries",
                 "failed_relays"} : metrics[Self][c] = last.done[c]
    /\ \A c \in {"success_count", "failure_count"} :
          route_table[Self][CONTROLLER][1][c] = last.done[c]

\* C23: every read-modify-write of the metrics, of route_table and of a
\* route's counters is done while holding the routing lock, so that with
\* relay_message on the agent thread and the handlers on the listener thread
\* no counter update is lost.
C23_CountersUnderLock ==
    last.op = "threads" =>
        /\ \A t \in Threads : UpdatesCounter(t) => lock = t
        /\ NoUpdateLost

----------------------------------------------------------------------------
(* C24: stop() (FairSpecStop) *)

StopReturned == pc["agent"] = StoppedPc

LoopsTerminated == pc["listener"] = TerminatedPc /\ pc["heartbeat"] = TerminatedPc

\* the most recent call is a relay_message made after stop() returned (stop()
\* clears the record of earlier calls, and the agent thread makes no call
\* while it is inside stop())
RelayedAfterStop == RelayCalled /\ StopReturned

\* C24: once stop() has returned, running is false and the socket is closed
\* and released; after stop() both loops eventually terminate; and a
\* relay_message call made after stop returns false, every send having
\* failed on the missing socket.
C24_StopTerminates ==
    /\ [](StopReturned => ~running /\ socket = None)
    /\ [](RelayedAfterStop =>
             /\ ~last.result.ret
             /\ \A i \in 1..Len(last.result.sends) : ~last.result.sends[i].ok
             /\ last.result.branch = "exhausted")
    /\ (~running ~> LoopsTerminated)

\* stop() has returned, both loops have ended, and a heartbeat relayed
\* afterwards over an existing route came back false
C24_Witness ==
    /\ RelayedAfterStop
    /\ LoopsTerminated
    /\ last.routes_before # <<>>
    /\ last.result.sends # <<>>
    /\ ~last.result.ret

----------------------------------------------------------------------------
(* SpecDirect: can_reach_controller_directly against every kind of          *)
(* Controller Client.  The client is built before the router and keeps its  *)
(* shape; its last_success is set whenever it reaches the controller.       *)

\* health_check is missing, returns True, returns False, or raises
DirectKinds == {"absent", "true", "false", "raises"}

InitDirect ==
    /\ now = 0
    /\ ServiceStarted
    /\ route_cache_ttl = [n \in Nodes |-> ROUTE_EXPIRY_SECONDS]
    /\ peers = [n \in Nodes |-> [p \in Nodes \ {n} |-> StaticPeer(p)]]
    /\ \E k \in DirectKinds :
          controller_client = [n \in Nodes |-> [last_success |-> NoTime, health_check |-> k]]
    /\ relay_cache = [n \in Nodes |-> {}]
    /\ network = {}
    /\ on_relay_complete = [n \in Nodes |-> FALSE]
    /\ pending_pings = [n \in Nodes |-> EmptyMap]
    /\ message = NoMessage
    /\ sent_count = [id \in MsgIds |-> 0]
    /\ last = Idle
    /\ buffer = NewLocalBuffer(DEFAULT_MAX_ITEMS, DEFAULT_FLUSH_BATCH)
    /\ route_table = [n \in Nodes |-> EmptyMap]
    /\ pending_requests = [n \in Nodes |-> EmptyMap]
    /\ metrics = [n \in Nodes |-> InitMetrics]

NextDirect ==
    \/ \E n \in Nodes : ControllerContact(n)
    \/ \E n \in Nodes : CanReachControllerDirectly(n)
    \/ \E d \in SelectTickSteps : now + d <= MaxSelectTicks * d /\ Tick(d)

SpecDirect == InitDirect /\ [][NextDirect]_vars

----------------------------------------------------------------------------
(* C31: can_reach_controller_directly (SpecDirect) *)

DirectAsked == last.op = "can_reach_controller_directly"

\* last_success is set and less than 60 s old at the call
RecentSuccess ==
    /\ last.client.last_success # NoTime
    /\ last.at - last.client.last_success < CONTROLLER_FRESH_SECONDS

\* C31 as stated: the call returns true exactly when last_success is within
\* the last 60 s or health_check() returns true.
C31_DirectReach ==
    DirectAsked => (last.result <=> (RecentSuccess \/ last.client.health_check = "true"))

\* C31 as the code has it: a last_success that is set decides alone (true
\* within 60 s, false when older, health_check not consulted); only with
\* last_success absent or unset does the call return what health_check()
\* returns, and false when health_check is missing, returns false or raises.
C31_DirectReachLastSuccessFirst ==
    DirectAsked =>
        /\ RecentSuccess => last.result
        /\ (last.client.last_success # NoTime /\ ~RecentSuccess) => ~last.result
        /\ last.client.last_success = NoTime =>
               (last.result <=> last.client.health_check = "true")

\* the call was made with a last_success older than 60 s and a health_check
\* that would have answered true, and it returned false
C31_Witness ==
    /\ DirectAsked
    /\ last.client.last_success # NoTime
    /\ ~RecentSuccess
    /\ last.client.health_check = "true"
    /\ ~last.result

----------------------------------------------------------------------------
(* The peer table under two threads.  MeshPeering holds no lock: the        *)
(* listener thread runs _update_peer_status and the heartbeat thread runs   *)
(* _check_peer_timeout on the same PeerInfo, each as the sequence of its    *)
(* attribute reads and writes.                                              *)

SweepPc(i) == [op |-> "check_peer_timeout", i |-> i]
SightPc(i) == [op |-> "update_peer_status", i |-> i]

\* the peer an operation of thread t works on
PeerOf(t) == reg[t].todo[1]

\* _heartbeat_loop reaches _check_peer_timeout(peer)
SweepBegin(p) ==
    /\ pc["heartbeat"] = IdlePc
    /\ p \in DOMAIN peers[Self]
    /\ pc' = [pc EXCEPT !["heartbeat"] = SweepPc(1)]
    /\ reg' = [reg EXCEPT !["heartbeat"] = [val |-> 0, todo |-> <<p>>]]
    /\ UNCHANGED <<now, route_cache_ttl, peers, controller_client, route_table,
                   pending_requests, relay_cache, metrics, network, message,
                   on_relay_complete, pending_pings, buffer, running, socket, lock,
                   sent_count, last>>

\* _check_peer_timeout: `if peer.last_seen is None: return`, then
\* elapsed = utcnow() - peer.last_seen
SweepReadSeen ==
    LET peer == peers[Self][PeerOf("heartbeat")] IN
    /\ pc["heartbeat"] = SweepPc(1)
    /\ IF peer.last_seen = NoTime
       THEN /\ pc' = [pc EXCEPT !["heartbeat"] = IdlePc]
            /\ reg' = [reg EXCEPT !["heartbeat"] = NoLocals]
       ELSE /\ pc' = [pc EXCEPT !["heartbeat"] = SweepPc(2)]
            /\ reg' = [reg EXCEPT !["heartbeat"].val = now - peer.last_seen]
    /\ UNCHANGED <<now, route_cache_ttl, peers, controller_client, route_table,
                   pending_requests, relay_cache, metrics, network, message,
                   on_relay_complete, pending_pings, buffer, running, socket, lock,
                   sent_count, last>>

\* _check_peer_timeout: `elapsed > self.peer_timeout and peer.status == REACHABLE`,
\* the status read now
SweepTest ==
    LET peer == peers[Self][PeerOf("heartbeat")] IN
    /\ pc["heartbeat"] = SweepPc(2)
    /\ IF reg["heartbeat"].val > PEER_TIMEOUT /\ peer.status = "reachable"
       THEN /\ pc' = [pc EXCEPT !["heartbeat"] = SweepPc(3)]
            /\ UNCHANGED reg
       ELSE /\ pc' = [pc EXCEPT !["heartbeat"] = IdlePc]
            /\ reg' = [reg EXCEPT !["heartbeat"] = NoLocals]
    /\ UNCHANGED <<now, route_cache_ttl, peers, controller_client, route_table,
                   pending_requests, relay_cache, metrics, network, message,
                   on_relay_complete, pending_pings, buffer, running, socket, lock,
                   sent_count, last>>

\* _check_peer_timeout: peer.status = PeerStatus.UNREACHABLE
SweepWrite ==
    /\ pc["heartbeat"] = SweepPc(3)
    /\ peers' = [peers EXCEPT ![Self][PeerOf("heartbeat")].status = "unreachable"]
    /\ pc' = [pc EXCEPT !["heartbeat"] = IdlePc]
    /\ reg' = [reg EXCEPT !["heartbeat"] = NoLocals]
    /\ UNCHANGED <<now, route_cache_ttl, controller_client, route_table,
                   pending_requests, relay_cache, metrics, network, message,
                   on_relay_complete, pending_pings, buffer, running, socket, lock,
                   sent_count, last>>

\* the listener thread receives a PING or PONG of p and enters
\* _update_peer_status(p, addr, REACHABLE): now = datetime.utcnow()
SightBegin(p) ==
    /\ pc["listener"] = IdlePc
    /\ p \in DOMAIN peers[Self]
    /\ pc' = [pc EXCEPT !["listener"] = SightPc(1)]
    /\ reg' = [reg EXCEPT !["listener"] = [val |-> now, todo |-> <<p>>]]
    /\ UNCHANGED <<now, route_cache_ttl, peers, controller_client, route_table,
                   pending_requests, relay_cache, metrics, network, message,
                   on_relay_complete, pending_pings, buffer, running, socket, lock,
                   sent_count, last>>

\* _update_peer_status: peer.status = status
SightStatus ==
    /\ pc["listener"] = SightPc(1)
    /\ peers' = [peers EXCEPT ![Self][PeerOf("listener")].status = "reachable"]
    /\ pc' = [pc EXCEPT !["listener"] = SightPc(2)]
    /\ UNCHANGED reg
    /\ UNCHANGED <<now, route_cache_ttl, controller_client, route_table,
                   pending_requests, relay_cache, metrics, network, message,
                   on_relay_complete, pending_pings, buffer, running, socket, lock,
                   sent_count, last>>

\* _update_peer_status: peer.last_seen = now
SightSeen ==
    /\ pc["listener"] = SightPc(2)
    /\ peers' = [peers EXCEPT ![Self][PeerOf("listener")].last_seen = reg["listener"].val]
    /\ pc' = [pc EXCEPT !["listener"] = IdlePc]
    /\ reg' = [reg EXCEPT !["listener"] = NoLocals]
    /\ UNCHANGED <<now, route_cache_ttl, controller_client, route_table,
                   pending_requests, relay_cache, metrics, network, message,
                   on_relay_complete, pending_pings, buffer, running, socket, lock,
                   sent_count, last>>

\* SpecSweep: the static peers of one node, sighted by the listener thread
\* and swept by the heartbeat thread while the clock advances
InitSweep == InitRouters({ROUTE_EXPIRY_SECONDS})

NextSweep ==
    \/ \E p \in PeerIds : SweepBegin(p)
    \/ SweepReadSeen
    \/ SweepTest
    \/ SweepWrite
    \/ \E p \in PeerIds : SightBegin(p)
    \/ SightStatus
    \/ SightSeen
    \/ \E d \in PeerTickSteps : now + d <= MaxPeerTicks * d /\ Tick(d)

SpecSweep == InitSweep /\ [][NextSweep]_vars

----------------------------------------------------------------------------
(* C32: sighting against sweep (SpecSweep) *)

\* no thread is inside an operation on the peer table
PeerTableQuiet == pc["listener"] = IdlePc /\ pc["heartbeat"] = IdlePc

\* peer p is marked unreachable although it was seen within peer_timeout
FreshButUnreachable(p) ==
    /\ peers[Self][p].status = "unreachable"
    /\ peers[Self][p].last_seen # NoTime
    /\ now - peers[Self][p].last_seen <= PEER_TIMEOUT

\* C32: whatever the interleaving of a sighting of X with a sweep of X, once
\* both have finished X is not UNREACHABLE with a last_seen within peer_timeout.
C32_SightingSurvivesSweep ==
    PeerTableQuiet => \A p \in PeerIds : ~FreshButUnreachable(p)

----------------------------------------------------------------------------
(* The heartbeat loop against peers that answer or stay silent.  A pass of  *)
(* the loop pings every peer of the table and checks it for timeout, then   *)
(* sleeps heartbeat_interval seconds; the clock advances with the sleep,    *)
(* and by the end of a sleep the listener thread has handled the PONGs      *)
(* that were waiting.                                                       *)

BeatPc(i) == [op |-> "heartbeat_loop", i |-> i]

\* the PONG of peer p on its way to this node
PongDatagram(p) == [type |-> "PONG", src |-> p, dst |-> AddrOf(Self)]

\* The remote peers: n2 answers at first, is silent from the second pass
\* until peer_timeout has surely passed, and answers again afterwards; the
\* other peers answer throughout.
SilentFrom == HEARTBEAT_INTERVAL
AnswersAgainAt == PEER_TIMEOUT + 2 * HEARTBEAT_INTERVAL
Silent(p) == p = "n2" /\ now >= SilentFrom /\ now < AnswersAgainAt

\* _heartbeat_loop: _send_ping(peer) for the next peer of the pass.  The
\* sendto to a silent peer may fail; a peer that answers gets the PING and
\* sends its PONG.
BeatPing(send_ok) ==
    LET p == Head(reg["heartbeat"].todo)
        sent == socket = "open" /\ send_ok
    IN
    /\ pc["heartbeat"] = BeatPc(2)
    /\ reg["heartbeat"].todo # <<>>
    /\ ~Silent(p) => send_ok
    /\ pending_pings' = [pending_pings EXCEPT ![Self] = send_ping(Self, p, sent)]
    /\ network' = IF sent /\ ~Silent(p) THEN network \cup {PongDatagram(p)} ELSE network
    /\ pc' = [pc EXCEPT !["heartbeat"] = BeatPc(4)]
    /\ last' = [op |-> "send_ping", node |-> Self, peer |-> p, sent |-> sent,
                peers_before |-> peers[Self]]
    /\ UNCHANGED <<now, peers, reg>>
    /\ UNCHANGED <<route_cache_ttl, controller_client, route_table, pending_requests,
                   relay_cache, metrics, message, on_relay_complete, buffer,
                   running, socket, lock, sent_count>>

\* _heartbeat_loop: _check_peer_timeout(peer) for the peer just pinged
BeatCheck ==
    LET p == Head(reg["heartbeat"].todo) IN
    /\ pc["heartbeat"] = BeatPc(4)
    /\ peers' = [peers EXCEPT ![Self] = check_peer_timeout(Self, p)]
    /\ reg' = [reg EXCEPT !["heartbeat"].todo = Tail(@)]
    /\ pc' = [pc EXCEPT !["heartbeat"] = BeatPc(2)]
    /\ last' = [op |-> "check_peer_timeout", node |-> Self, peer |-> p,
                peers_before |-> peers[Self], sent |-> <<>>]
    /\ UNCHANGED <<now, pending_pings, network>>
    /\ UNCHANGED <<route_cache_ttl, controller_client, route_table, pending_requests,
                   relay_cache, metrics, message, on_relay_complete, buffer,
                   running, socket, lock, sent_count>>

\* _heartbeat_loop: the for loop is through
BeatEnd ==
    /\ pc["heartbeat"] = BeatPc(2)
    /\ reg["heartbeat"].todo = <<>>
    /\ pc' = [pc EXCEPT !["heartbeat"] = BeatPc(3)]
    /\ UNCHANGED <<now, peers, pending_pings, network, reg, last>>
    /\ UNCHANGED <<route_cache_ttl, controller_client, route_table, pending_requests,
                   relay_cache, metrics, message, on_relay_complete, buffer,
                   running, socket, lock, sent_count>>

\* _heartbeat_loop: time.sleep(self.heartbeat_interval)
BeatSleep ==
    /\ pc["heartbeat"] = BeatPc(3)
    /\ network = {}
    /\ pc' = [pc EXCEPT !["heartbeat"] = BeatPc(1)]
    /\ now' = IF now < MaxBeats * HEARTBEAT_INTERVAL THEN now + HEARTBEAT_INTERVAL ELSE now
    /\ last' = Idle
    /\ UNCHANGED <<peers, pending_pings, network, reg>>
    /\ UNCHANGED <<route_cache_ttl, controller_client, route_table, pending_requests,
                   relay_cache, metrics, message, on_relay_complete, buffer,
                   running, socket, lock, sent_count>>

\* _listener_loop: recvfrom returns the PONG of p and _handle_message marks
\* the sender reachable
BeatReceive(p) ==
    /\ PongDatagram(p) \in network
    /\ network' = network \ {PongDatagram(p)}
    /\ peers' = [peers EXCEPT ![Self] =
                    update_peer_status(Self, p, AddrOf(p), "reachable", PongRtt(Self, p))]
    /\ pending_pings' = [pending_pings EXCEPT ![Self] = [q \in DOMAIN @ \ {p} |-> @[q]]]
    /\ last' = [op |-> "handle_pong", node |-> Self, peer |-> p,
                peers_before |-> peers[Self], sent |-> <<>>]
    /\ UNCHANGED <<now, pc, reg>>
    /\ UNCHANGED <<route_cache_ttl, controller_client, route_table, pending_requests,
                   relay_cache, metrics, message, on_relay_complete, buffer,
                   running, socket, lock, sent_count>>

\* after MeshPeering.start(): both loops at their test, the configured
\* peers in the table, none of them seen yet
InitBeat ==
    /\ now = 0
    /\ running = TRUE
    /\ socket = "open"
    /\ lock = None
    /\ pc = [t \in Threads |->
                IF t = "listener" THEN [op |-> "listener_loop", i |-> 1]
                ELSE IF t = "heartbeat" THEN BeatPc(1)
                ELSE IdlePc]
    /\ reg = [t \in Threads |-> NoLocals]
    /\ route_cache_ttl = [n \in Nodes |-> ROUTE_EXPIRY_SECONDS]
    /\ peers = [n \in Nodes |-> [p \in Nodes \ {n} |-> StaticPeer(p)]]
    /\ controller_client = [n \in Nodes |-> [last_success |-> NoTime, health_check |-> "absent"]]
    /\ relay_cache = [n \in Nodes |-> {}]
    /\ network = {}
    /\ on_relay_complete = [n \in Nodes |-> FALSE]
    /\ pending_pings = [n \in Nodes |-> EmptyMap]
    /\ message = NoMessage
    /\ sent_count = [id \in MsgIds |-> 0]
    /\ buffer = NewLocalBuffer(DEFAULT_MAX_ITEMS, DEFAULT_FLUSH_BATCH)
    /\ route_table = [n \in Nodes |-> EmptyMap]
    /\ pending_requests = [n \in Nodes |-> EmptyMap]
    /\ metrics = [n \in Nodes |-> InitMetrics]
    /\ last = Idle

HeartbeatPass == HeartbeatTest \/ (\E ok \in BOOLEAN : BeatPing(ok)) \/ BeatCheck
                     \/ BeatEnd \/ BeatSleep

ListenerPass == \E p \in PeerIds : BeatReceive(p)

NextBeat == HeartbeatPass \/ ListenerPass

SpecBeat == InitBeat /\ [][NextBeat]_vars

\* both threads of MeshPeering.start are scheduled again and again
FairSpecBeat == SpecBeat /\ WF_vars(HeartbeatPass) /\ WF_vars(ListenerPass)

----------------------------------------------------------------------------
(* C33: the heartbeat loop marks peers down and up again (FairSpecBeat) *)

MarkedUnreachable(p) == peers[Self][p].status = "unreachable"

PingFailed == last.op = "send_ping" /\ ~last.sent

\* C33: with both loops scheduled, a REACHABLE peer that has stopped
\* answering is eventually marked UNREACHABLE; an UNREACHABLE peer that
\* answers again is eventually marked REACHABLE; and a ping whose send failed
\* leaves the status of every peer as it was.
C33_PeerFollowsAnswers ==
    /\ \A p \in PeerIds : (Reachable(p) /\ Silent(p)) ~> MarkedUnreachable(p)
    /\ \A p \in PeerIds : (MarkedUnreachable(p) /\ ~Silent(p)) ~> Reachable(p)
    /\ [](PingFailed => \A p \in PeerIds :
                            peers[Self][p].status = last.peers_before[p].status)

\* a PONG has just brought back a peer that the loop had marked UNREACHABLE
\* while it was silent
C33_Witness ==
    /\ last.op = "handle_pong"
    /\ last.peers_before[last.peer].status = "unreachable"
    /\ Reachable(last.peer)
    /\ now >= AnswersAgainAt

----------------------------------------------------------------------------
(* C34: get_items_to_flush followed by mark_flushed (SpecPersist) *)

\* min(size, flush_batch_size) for the buffer as it was before the call
BatchLen ==
    IF Len(last.items_before) <= buffer.flush_batch_size
    THEN Len(last.items_before) ELSE buffer.flush_batch_size

\* mark_flushed has just been called with the batch get_items_to_flush()
\* returned without a type filter
UnfilteredFlush ==
    /\ last.op = "mark_flushed"
    /\ last.batch = SubSeq(last.items_before, 1, BatchLen)

\* C34: after b = get_items_to_flush() and mark_flushed(b) the buffer is the
\* previous buffer without its first min(size, flush_batch_size) items, the
\* other items kept in their order.
C34_FlushRemovesBatch ==
    UnfilteredFlush =>
        buffer.items = SubSeq(last.items_before, BatchLen + 1, Len(last.items_before))

----------------------------------------------------------------------------
(* C35: the relay counters of metrics (Spec) *)

\* the return statements of relay_message
RelayBranches == {"ttl", "no_route", "ttl_after_increment", "sent", "exhausted"}

\* the most recent operation ran relay_message to its return: called by the
\* agent, or by handle_incoming_relay re-forwarding a message
RelayCompleted ==
    \/ last.op = "relay_message"
    \/ last.op = "handle_incoming_relay" /\ last.result.branch \in RelayBranches

\* what that call returned
RelayReturned ==
    IF last.op = "relay_message" THEN last.result.ret ELSE last.result.branch = "sent"

RelayTotal == metrics[Self].messages_relayed + metrics[Self].failed_relays

\* C35: a completed relay_message call adds 1 to messages_relayed and
\* nothing to failed_relays when it returned true, 1 to failed_relays and
\* nothing to messages_relayed when it returned false; and every step adds
\* to the sum of the two exactly the number of calls it completes, so the
\* sum is the number of completed calls.
C35_OneCounterPerCall ==
    /\ [](RelayCompleted =>
             LET before == last.metrics_before
                 after  == metrics[last.node]
                 up     == IF RelayReturned THEN "messages_relayed" ELSE "failed_relays"
                 same   == IF RelayReturned THEN "failed_relays" ELSE "messages_relayed"
             IN after[up] = before[up] + 1 /\ after[same] = before[same])
    /\ [][RelayTotal' - RelayTotal = IF RelayCompleted' /\ last' # last THEN 1 ELSE 0]_vars

\* a call has just returned true after an earlier call had failed: one count each
C35_Witness ==
    /\ RelayCompleted
    /\ RelayReturned
    /\ last.metrics_before.failed_relays = 1
    /\ metrics[Self].messages_relayed = 1
    /\ RelayTotal = 2

----------------------------------------------------------------------------
(* SpecUnique: the route table of one router under every operation that     *)
(* changes it.  handle_route_response runs on two threads at once, each as   *)
(* the steps of RouteResponse; invalidate_route, cleanup_expired_routes,    *)
(* discover_routes and relay_message take the lock themselves and run       *)
(* while no handler holds it.                                               *)

UniqueThreads == {"listener", "status"}
UniqueHops == {0}
UniqueFails == {{}, 1..(DEFAULT_MAX_RETRIES + 1)}   \* every send succeeds, or none

\* a ROUTE_RESPONSE for the pending request is handed to handle_route_response
RespBegin(t) ==
    /\ pc[t] = IdlePc
    /\ "r1" \in DOMAIN pending_requests[Self]
    /\ metrics[Self].routes_discovered < MaxMetric
    /\ pc' = [pc EXCEPT ![t] = [op |-> "handle_route_response", i |-> 1]]
    /\ UNCHANGED <<now, route_cache_ttl, peers, controller_client, route_table,
                   pending_requests, relay_cache, metrics, network, message,
                   on_relay_complete, pending_pings, buffer, running, socket, lock, reg,
                   sent_count, last>>

\* handle_route_response, "Add to route table", for the response of
\* sender_id, inside the with-block
RespUpdate(t, sender_id, hops) ==
    LET res == handle_route_response(Self, sender_id, AddrOf(sender_id), "r1",
                                     CONTROLLER, hops, DIRECT_RTT) IN
    /\ NextInstr(t).k = "update_route"
    /\ lock = t
    /\ route_table' = [route_table EXCEPT ![Self] = res.table]
    /\ metrics' = [metrics EXCEPT ![Self] = res.metrics]
    /\ pc' = Advanced(t)
    /\ UNCHANGED <<now, route_cache_ttl, peers, controller_client,
                   pending_requests, relay_cache, network, message,
                   on_relay_complete, pending_pings, buffer, running, socket, lock, reg,
                   sent_count, last>>

InitUnique == InitRouters({ROUTE_EXPIRY_SECONDS})

NextUnique ==
    \/ lock = None /\ DiscoverRoutes(Self, "r1", CONTROLLER)
    \/ \E t \in UniqueThreads : RespBegin(t)
    \/ \E t \in UniqueThreads : Acquire(t)
    \/ \E t \in UniqueThreads : Release(t)
    \/ \E t \in UniqueThreads : LocalStep(t)
    \/ \E t \in UniqueThreads, p \in PeerIds, h \in UniqueHops : RespUpdate(t, p, h)
    \/ \E p \in PeerIds : lock = None /\ InvalidateRoute(Self, CONTROLLER, p)
    \/ lock = None /\ CleanupExpiredRoutes(Self)
    \/ \E f \in UniqueFails :
          /\ lock = None
          /\ MetricsBelow(Self, MaxMetric)
          /\ CountsBelow(Self, CONTROLLER, MaxCount)
          /\ SendHeartbeatViaMesh(Self, "m1", MaxHopsBound, f)
    \/ \E d \in TickSteps : now + d <= MaxTicks * d /\ Tick(d)

SpecUnique == InitUnique /\ [][NextUnique]_vars

----------------------------------------------------------------------------
(* C36: one route per next hop (SpecUnique) *)

\* the routes of destination d at node n that go through next hop h
RoutesVia(n, d, h) == {i \in 1..Len(route_table[n][d]) : route_table[n][d][i].next_hop = h}

\* C36: in every state each destination's route list holds at most one route
\* per next_hop, whatever the order of handle_route_response (two at once for
\* the same responder included), invalidate_route, cleanup_expired_routes and
\* relay_message on the initially empty table.
C36_OneRoutePerNextHop ==
    \A d \in DOMAIN route_table[Self] : \A h \in PeerIds :
        Cardinality(RoutesVia(Self, d, h)) <= 1

\* two handlers are at work on responses at once, one of them inside the
\* with-block about to update, and the table already holds a route via a
\* responder
C36_Witness ==
    /\ \A t \in UniqueThreads : pc[t].op = "handle_route_response"
    /\ \E t \in UniqueThreads : NextInstr(t).k = "update_route" /\ lock = t
    /\ CONTROLLER \in DOMAIN route_table[Self]
    /\ \E h \in PeerIds : Cardinality(RoutesVia(Self, CONTROLLER, h)) = 1

----------------------------------------------------------------------------
(* The inflight cache between a successful relay and its acknowledgement *)

\* C37: a message id that relay_message has put and left in the inflight
\* cache of a node (the call returned true) leaves that cache only in a step
\* that processes a handle_relay_ack for that id at that node, whatever else
\* the routers do in between, a failing relay_message of a message with the
\* same id included.
C37_CachedUntilAck ==
    [][\A n \in Nodes : \A id \in relay_cache[n] :
          id \notin relay_cache'[n] =>
              /\ last'.op = "handle_relay_ack"
              /\ last'.node = n
              /\ last'.message_id = id]_vars

----------------------------------------------------------------------------
(* handle_relay_ack and the completion callback *)

AckPc(i) == [op |-> "handle_relay_ack_callback", i |-> i]

\* what the registered callback does: nothing with the router, or a call of
\* a public router operation that takes the routing lock
CallbackKinds == {"plain", "get_routing_status", "has_route_to", "handle_relay_ack"}

\* the acknowledgement the listener is handling and the callback registered
AckOf(t) == reg[t].todo[1]

\* a RELAY_ACK(message_id, success) reaches the listener, which calls
\* handle_relay_ack; cb is the callable given to on_relay_complete
AckBegin(message_id, success, cb) ==
    /\ pc["listener"] = IdlePc
    /\ pc' = [pc EXCEPT !["listener"] = AckPc(1)]
    /\ reg' = [reg EXCEPT !["listener"] =
                  [val |-> 0,
                   todo |-> <<[message_id |-> message_id, success |-> success,
                               callback |-> cb]>>]]
    /\ UNCHANGED <<now, route_cache_ttl, peers, controller_client, route_table,
                   pending_requests, relay_cache, metrics, network, message,
                   on_relay_complete, pending_pings, buffer, running, socket, lock,
                   sent_count, last>>

\* `with self._lock:` of handle_relay_ack (1), or of the router operation the
\* callback calls (4); threading.Lock is not reentrant
AckAcquire ==
    /\ pc["listener"] \in {AckPc(1), AckPc(4)}
    /\ lock = None
    /\ lock' = "listener"
    /\ pc' = [pc EXCEPT !["listener"] = AckPc(@.i + 1)]
    /\ UNCHANGED <<now, route_cache_ttl, peers, controller_client, route_table,
                   pending_requests, relay_cache, metrics, network, message,
                   on_relay_complete, pending_pings, buffer, running, socket, reg,
                   sent_count, last>>

\* `if message_id in self.relay_cache: message = self.relay_cache.pop(...)`
AckPop ==
    /\ pc["listener"] = AckPc(2)
    /\ IF AckOf("listener").message_id \in relay_cache[Self]
       THEN /\ relay_cache' = [relay_cache EXCEPT ![Self] =
                                  @ \ {AckOf("listener").message_id}]
            /\ pc' = [pc EXCEPT !["listener"] = AckPc(3)]
       ELSE /\ pc' = [pc EXCEPT !["listener"] = AckPc(6)]
            /\ UNCHANGED relay_cache
    /\ UNCHANGED <<now, route_cache_ttl, peers, controller_client, route_table,
                   pending_requests, metrics, network, message,
                   on_relay_complete, pending_pings, buffer, running, socket, lock, reg,
                   sent_count, last>>

\* `if self._on_relay_complete: self._on_relay_complete(message_id, ...)`,
\* still inside the with-block: a plain callback returns; one that calls a
\* router operation arrives at that operation's `with self._lock:`
AckCallback ==
    /\ pc["listener"] = AckPc(3)
    /\ pc' = [pc EXCEPT !["listener"] =
                 IF on_relay_complete[Self] /\ AckOf("listener").callback # "plain"
                 THEN AckPc(4) ELSE AckPc(6)]
    /\ UNCHANGED <<now, route_cache_ttl, peers, controller_client, route_table,
                   pending_requests, relay_cache, metrics, network, message,
                   on_relay_complete, pending_pings, buffer, running, socket, lock, reg,
                   sent_count, last>>

\* the end of a with-block: of the operation the callback called (5), which
\* returns into handle_relay_ack, or of handle_relay_ack itself (6)
AckRelease ==
    /\ pc["listener"] \in {AckPc(5), AckPc(6)}
    /\ lock' = None
    /\ pc' = [pc EXCEPT !["listener"] = IF @ = AckPc(5) THEN AckPc(6) ELSE IdlePc]
    /\ UNCHANGED <<now, route_cache_ttl, peers, controller_client, route_table,
                   pending_requests, relay_cache, metrics, network, message,
                   on_relay_complete, pending_pings, buffer, running, socket, reg,
                   sent_count, last>>

\* the status thread asks for get_routing_status
StatusBegin ==
    /\ pc["status"] = IdlePc
    /\ pc' = [pc EXCEPT !["status"] = [op |-> "get_routing_status", i |-> 1]]
    /\ UNCHANGED <<now, route_cache_ttl, peers, controller_client, route_table,
                   pending_requests, relay_cache, metrics, network, message,
                   on_relay_complete, pending_pings, buffer, running, socket, lock, reg,
                   sent_count, last>>

InitCallback == InitThreads

NextCallback ==
    \/ lock = None /\ OnRelayComplete(Self)
    \/ \E f \in UniqueFails :
          /\ lock = None
          /\ MetricsBelow(Self, MaxMetric)
          /\ CountsBelow(Self, CONTROLLER, MaxCount + 1)
          /\ SendHeartbeatViaMesh(Self, "m1", MaxHopsBound, f)
    \/ \E id \in AckIds, ok \in BOOLEAN, cb \in CallbackKinds : AckBegin(id, ok, cb)
    \/ AckAcquire
    \/ AckPop
    \/ AckCallback
    \/ AckRelease
    \/ StatusBegin
    \/ Acquire("status")
    \/ LocalStep("status")
    \/ Release("status")

SpecCallback == InitCallback /\ [][NextCallback]_vars

\* thread t is at a `with self._lock:` while it holds the lock itself: it
\* waits for a release that only it could make
SelfDeadlock(t) == lock = t /\ pc[t] = AckPc(4)

\* C38: handle_relay_ack for a cached message runs to its end whatever the
\* registered callback does, a call of get_routing_status, has_route_to or
\* handle_relay_ack included: no state is reached in which the handling
\* thread waits for the routing lock that it holds.
C38_AckNeverDeadlocks == \A t \in Threads : ~SelfDeadlock(t)

----------------------------------------------------------------------------
(* SpecFresh: three agents after the last controller link has gone.  n3    *)
(* reached the controller at time 0 and never again; every agent sends its  *)
(* heartbeat through the mesh once it has no direct link, discovering       *)
(* routes first when it has none; datagrams arrive or are lost before the   *)
(* clock moves on.                                                          *)

FRESH_BEAT == 30                \* heartbeat_interval_seconds of the agents
MaxFreshTicks == 6              \* heartbeat intervals per behaviour
FreshReqIds == {"r1", "r2"}     \* request ids, handed out in this order
FreshAgents == {"n2", "n3"}     \* the agents whose heartbeat loop is followed

\* the peering service has seen peer p answer (n1 has not answered yet)
ReachablePeer(p) == [StaticPeer(p) EXCEPT !.status = "reachable", !.last_seen = 0]

InitFresh ==
    /\ now = 0
    /\ ServiceStarted
    /\ route_cache_ttl = [n \in Nodes |-> ROUTE_EXPIRY_SECONDS]
    /\ peers = [n \in Nodes |-> [p \in Nodes \ {n} |->
                  IF p \in FreshAgents THEN ReachablePeer(p) ELSE StaticPeer(p)]]
    /\ controller_client = [n \in Nodes |->
          [last_success |-> IF n = "n3" THEN 0 ELSE NoTime, health_check |-> "absent"]]
    /\ relay_cache = [n \in Nodes |-> {}]
    /\ network = {}
    /\ on_relay_complete = [n \in Nodes |-> FALSE]
    /\ pending_pings = [n \in Nodes |-> EmptyMap]
    /\ message = NoMessage
    /\ sent_count = [id \in MsgIds |-> 0]
    /\ buffer = NewLocalBuffer(DEFAULT_MAX_ITEMS, DEFAULT_FLUSH_BATCH)
    /\ route_table = [n \in Nodes |-> EmptyMap]
    /\ pending_requests = [n \in Nodes |-> EmptyMap]
    /\ metrics = [n \in Nodes |-> InitMetrics]
    /\ last = Idle

\* NodeAgent._send_heartbeat_via_mesh, "Discover routes if needed", after
\* the direct heartbeat failed
FreshDiscover(n) ==
    /\ network = {}
    /\ ~can_reach_controller_directly(n)
    /\ ~has_route_to(n, CONTROLLER)
    /\ \E r \in FreshReqIds :
          /\ r = "r1" \/ "r1" \in DOMAIN pending_requests[n]
          /\ DiscoverRoutes(n, r, CONTROLLER)

\* NodeAgent._send_heartbeat_via_mesh, from "Check if route exists now",
\* once per heartbeat interval; every send succeeds
FreshHeartbeat(n) ==
    /\ network = {}
    /\ last = Idle
    /\ ~can_reach_controller_directly(n)
    /\ SendHeartbeatViaMesh(n, "m1", MaxHopsBound, {})

\* a ROUTE_REQUEST datagram reaches the node it was sent to
FreshRequest(d) ==
    LET n   == d.dst[1]
        res == handle_route_request(n, d.body.sender_id, AddrOf(d.src),
                                    d.body.request_id, d.body.destination, TRUE)
    IN
    /\ d \in network
    /\ d.type = MSG_ROUTE_REQUEST
    /\ network' = (network \ {d}) \cup res.sent
    /\ last' = [op |-> "handle_route_request", node |-> n, at |-> now, result |-> res]
    /\ UNCHANGED <<threadVars, now, route_cache_ttl, peers, controller_client, route_table,
                   pending_requests, relay_cache, metrics, message, sent_count,
                   on_relay_complete, pending_pings, buffer>>

\* a ROUTE_RESPONSE datagram reaches the node it was sent to
FreshResponse(d) ==
    LET n   == d.dst[1]
        res == handle_route_response(n, d.body.sender_id, AddrOf(d.src),
                                     d.body.request_id, d.body.destination,
                                     d.body.hops, d.body.rtt_ms)
    IN
    /\ d \in network
    /\ d.type = MSG_ROUTE_RESPONSE
    /\ network' = network \ {d}
    /\ route_table' = [route_table EXCEPT ![n] = res.table]
    /\ metrics' = [metrics EXCEPT ![n] = res.metrics]
    /\ last' = [op |-> "handle_route_response", node |-> n, at |-> now, result |-> res]
    /\ UNCHANGED <<threadVars, now, route_cache_ttl, peers, controller_client,
                   pending_requests, relay_cache, message, sent_count,
                   on_relay_complete, pending_pings, buffer>>

\* a discovery datagram is lost on the way
FreshLose(d) ==
    /\ d \in network
    /\ d.type \in {MSG_ROUTE_REQUEST, MSG_ROUTE_RESPONSE}
    /\ network' = network \ {d}
    /\ UNCHANGED <<threadVars, now, route_cache_ttl, peers, controller_client, route_table,
                   pending_requests, relay_cache, metrics, message, sent_count,
                   on_relay_complete, pending_pings, buffer, last>>

NextFresh ==
    \/ \E n \in FreshAgents : FreshDiscover(n)
    \/ \E n \in FreshAgents : FreshHeartbeat(n)
    \/ \E d \in network : FreshRequest(d)
    \/ \E d \in network : FreshResponse(d)
    \/ \E d \in network : DeliverRelay(d, "accepted", {})
    \/ \E d \in network : FreshLose(d)
    \/ network = {} /\ now + FRESH_BEAT <= MaxFreshTicks * FRESH_BEAT /\ Tick(FRESH_BEAT)

SpecFresh == InitFresh /\ [][NextFresh]_vars

\* no node has a usable direct controller link
NoDirectLink == \A n \in Nodes : ~can_reach_controller_directly(n)

\* the last controller contact was at time 0, so no link is usable from
\* ROUTE_EXPIRY_SECONDS on; two more expiry periods later
RoutesGoneBy == 3 * ROUTE_EXPIRY_SECONDS

\* C39: once no node has a usable direct controller link the routes to
\* "controller" die out: two expiry periods after the last link stopped being
\* usable no node holds a non-expired route to "controller", whatever
\* ROUTE_REQUESTs were answered and whatever was relayed in between.
C39_RoutesDieOut ==
    (NoDirectLink /\ now >= RoutesGoneBy) =>
        \A n \in Nodes : ~has_route_to(n, CONTROLLER)

----------------------------------------------------------------------------
(* SpecOnce: one message, originated by one relay_message call, travels a   *)
(* network of three routers with every route table (cycles included),       *)
(* every pattern of failing sends, controller links coming up at any node,  *)
(* and datagrams that are delivered once or lost.  The history counts the   *)
(* calls made to Controller Clients.                                        *)

OnceTypes == {"heartbeat", "command_result"}
OnceOutcomes == {"accepted", "rejected", "raises"}
\* the attempts that raise: a table holds at most two routes, so a walk makes
\* at most two attempts
OnceFails == SUBSET (1..2)

InitOnce ==
    /\ now = 0
    /\ ServiceStarted
    /\ route_cache_ttl = [n \in Nodes |-> ROUTE_EXPIRY_SECONDS]
    /\ peers = [n \in Nodes |-> [p \in Nodes \ {n} |-> StaticPeer(p)]]
    /\ controller_client = [n \in Nodes |-> [last_success |-> NoTime, health_check |-> "absent"]]
    /\ relay_cache = [n \in Nodes |-> {}]
    /\ network = {}
    /\ on_relay_complete = [n \in Nodes |-> FALSE]
    /\ pending_pings = [n \in Nodes |-> EmptyMap]
    /\ message = NoMessage
    /\ sent_count = [id \in MsgIds |-> 0]
    /\ \E t \in NetTables :
          /\ route_table = [n \in Nodes |-> NetRoutes(t[n])]
          /\ metrics = [n \in Nodes |-> [InitMetrics EXCEPT !.routes_discovered = Len(t[n])]]
    /\ pending_requests = [n \in Nodes |-> ("r1" :> 0)]
    /\ buffer = NewLocalBuffer(DEFAULT_MAX_ITEMS, DEFAULT_FLUSH_BATCH)
    /\ last = [op |-> "network", originated |-> FALSE, failed_sends |-> 0, calls |-> <<>>]

\* the sends of a walk that raised
CountFailed(sends) == Cardinality({i \in 1..Len(sends) : ~sends[i].ok})

\* the one relay_message call that originates the message at node n
OnceRelay(n, type, fails) ==
    LET m   == NewRelayMessage("m1", type, n, CONTROLLER, 0, MaxHopsBound, <<>>)
        res == relay_message(n, m, DEFAULT_MAX_RETRIES, fails)
    IN
    /\ ~last.originated
    /\ route_table' = [route_table EXCEPT ![n] = WithRoutes(n, CONTROLLER, res.routes)]
    /\ relay_cache' = [relay_cache EXCEPT ![n] = res.cache]
    /\ metrics' = [metrics EXCEPT ![n] = res.metrics]
    /\ network' = network \cup SentDatagrams(n, res.message, res.sends)
    /\ sent_count' = [sent_count EXCEPT !["m1"] = @ + CountOk(res.sends)]
    /\ last' = [last EXCEPT !.originated = TRUE,
                            !.failed_sends = @ + CountFailed(res.sends)]
    /\ UNCHANGED <<threadVars, now, route_cache_ttl, peers, controller_client,
                   pending_requests, message, on_relay_complete, pending_pings, buffer>>

\* a RELAY_DATA datagram reaches the listener of the node it was sent to and
\* is taken off the network; the calls handle_incoming_relay makes to the
\* Controller Client of that node are added to the history
OnceDeliver(d, outcome, fails) ==
    LET n   == d.dst[1]
        m   == d.body
        res == handle_incoming_relay(n, m, AddrOf(d.src), outcome, fails)
    IN
    /\ d \in network
    /\ d.type = MSG_RELAY_DATA
    /\ route_table' = [route_table EXCEPT ![n] = res.table]
    /\ relay_cache' = [relay_cache EXCEPT ![n] = res.cache]
    /\ metrics' = [metrics EXCEPT ![n] = res.metrics]
    /\ network' = (network \ {d}) \cup SentDatagrams(n, res.message, res.sends)
                                   \cup AckDatagrams(n, res.ack_calls)
    /\ sent_count' = [sent_count EXCEPT ![m.message_id] = @ + CountOk(res.sends)]
    /\ last' = [last EXCEPT
                  !.failed_sends = @ + CountFailed(res.sends),
                  !.calls = @ \o [i \in 1..Len(res.controller_calls) |->
                                    [node |-> n, message_id |-> m.message_id,
                                     hop_count |-> m.hop_count,
                                     method |-> res.controller_calls[i].method]]]
    /\ UNCHANGED <<threadVars, now, route_cache_ttl, peers, controller_client,
                   pending_requests, message, on_relay_complete, pending_pings, buffer>>

\* a datagram is lost
OnceLose(d) ==
    /\ d \in network
    /\ network' = network \ {d}
    /\ UNCHANGED <<threadVars, now, route_cache_ttl, peers, controller_client, route_table,
                   pending_requests, relay_cache, metrics, message, sent_count,
                   on_relay_complete, pending_pings, buffer, last>>

\* the Controller Client of node n reaches the controller
OnceContact(n) ==
    /\ controller_client[n].last_success = NoTime
    /\ controller_client' = [controller_client EXCEPT ![n].last_success = now]
    /\ UNCHANGED <<threadVars, now, route_cache_ttl, peers, route_table, pending_requests,
                   relay_cache, metrics, network, message, sent_count,
                   on_relay_complete, pending_pings, buffer, last>>

NextOnce ==
    \/ \E n \in Nodes, type \in OnceTypes, f \in OnceFails : OnceRelay(n, type, f)
    \/ \E d \in network, o \in OnceOutcomes, f \in OnceFails : OnceDeliver(d, o, f)
    \/ \E d \in network : OnceLose(d)
    \/ \E n \in Nodes : OnceContact(n)

SpecOnce == InitOnce /\ [][NextOnce]_vars

\* the calls made so far to Controller Clients for message_id, at any node
ClientCallsFor(message_id) ==
    {i \in 1..Len(last.calls) : last.calls[i].message_id = message_id}

\* C40: for the message originated by the one relay_message call the
\* Controller Clients of the network are called (heartbeat or
\* report_command_result) at most once in all, whatever the route tables and
\* whichever sends fail, as long as no datagram is duplicated.
C40_AtMostOneDelivery ==
    /\ Cardinality(ClientCallsFor("m1")) <= 1
    /\ Cardinality({d \in network : d.type = MSG_RELAY_DATA}) <= 1

\* the message reached a Controller Client after a relay through a second
\* node, with a send that failed on the way
C40_Witness ==
    /\ Cardinality(ClientCallsFor("m1")) = 1
    /\ last.calls[1].hop_count >= 2
    /\ last.failed_sends >= 1

====
